---- MODULE Spec2Model ----
(***************************************************************************)
(* Model of the consensus health checker (consensus_health_checker.py),    *)
(* of the mail helper it uses (util.py), and of sybil_checker.py,          *)
(* fingerprint_change_checker.py and package_versions.fetch_url.           *)
(*                                                                         *)
(* Strings are sequences of tokens; the token " " is a blank and "_" an    *)
(* underscore, so that str.replace(' ', '_') is modelled by what it does.  *)
(* Times are integer seconds, as produced by int(time.time()).             *)
(***************************************************************************)
EXTENDS Integers, Sequences, FiniteSets, TLC

VARIABLES
  cfg,                \* CONFIG: the loaded consensus_health configuration
  now,                \* the wall clock, in seconds
  mem,                \* the in-memory 'last_notified' configuration
  disk,               \* the last_notified.cfg file
  last,               \* the last is_rate_limited / rate_limit_notice call and its outcome
  noted,              \* history: key -> the time and duration of the last recording notice
  pc,                 \* position of the run of main()
  issues,             \* main: issues
  is_all_suppressed,  \* main: is_all_suppressed
  idx,                \* main: index of the marking loop over issues
  destinations,       \* main: destinations
  calls,              \* the util.send calls of the run, in order, with their outcome
  fetched,            \* history: the authorities whose consensus / vote was retrieved
  produced,           \* history: the issues of each fetch and the checkers that reported
  escaped,            \* where the exception that escaped main() was raised ("" for none)
  disk0,              \* history: the file as it was when the run started
  run_start,          \* history: the time at which the run started
  arg,                \* the arguments a checker, run_checks or util.send is called with
  ret,                \* what the call returned, or the exception it raised
  fingerprints_file,  \* sybil_checker: the file data/fingerprints
  sybil_run,          \* history: what the last run of sybil_checker found and did
  fingerprint_changes,  \* fingerprint_change_checker: the file data/fingerprint_changes
  last_notified,      \* fingerprint_change_checker: fingerprint_change_last_notified.cfg
  alarm_for,          \* fingerprint_change_checker: alarm_for and fingerprint_changes of
                      \* the run, with the store as loaded and the number of runs so far
  to_addresses,       \* util: the list object bound to the module-level TO_ADDRESSES
  fetch               \* package_versions: the call of fetch_url, its attempts and sleeps

rateVars == <<last, noted>>
runVars  == <<pc, issues, is_all_suppressed, idx, destinations, calls, fetched, produced,
              escaped, disk0, run_start>>
checkVars == <<arg, ret>>
sybilVars == <<fingerprints_file, sybil_run>>
changeVars == <<fingerprint_changes, last_notified, alarm_for>>
toolVars == <<to_addresses, fetch>>
otherVars == <<checkVars, sybilVars, changeVars, toolVars>>
vars     == <<cfg, now, mem, disk, last, noted, pc, issues, is_all_suppressed, idx,
              destinations, calls, fetched, produced, escaped, disk0, run_start, otherVars>>

----------------------------------------------------------------------------
(* Program constants *)

NOTICE  == "NOTICE"
WARNING == "WARNING"
ERROR   == "ERROR"
Runlevel == {NOTICE, WARNING, ERROR}

SECONDS_PER_HOUR     == 3600
GRACE_SECONDS        == 1800
NOTICE_DEFAULT_HOURS == 24
WARNING_DEFAULT_HOURS == 4
ERROR_DEFAULT_HOURS  == 0
LATENCY_FACTOR       == 5

EMAIL_SUBJECT  == "Consensus issues"
SCRIPT_ERROR_SUBJECT == "Script Error"
ANNOUNCE_SUBJECT == "Announce or"
TO_ADDRESSES   == {"tor-consensus-health@lists.torproject.org"}
ERROR_ADDRESS  == "atagar@torproject.org"
ANNOUNCE_ADDRESS == "tor-misc@commit.noreply.org"

(* Bounds of the model *)
T0         == 1500000000   \* the clock when the behaviour starts
MaxTicks   == 2            \* clock advances in a behaviour of the suppression functions
FAST       == 1            \* download time of a fast fetch
SLOW       == LATENCY_FACTOR * FAST + 1   \* download time of a slow fetch

----------------------------------------------------------------------------
(* Strings and str.format *)

L(t) == <<"lit", t>>
F(n) == <<"fld", n>>

\* str.replace(' ', '_')
Replace(s) == [i \in DOMAIN s |-> IF s[i] = " " THEN "_" ELSE s[i]]

\* fmt.format(**attr) raises KeyError when a field is not among the attributes
FormatRaises(fmt, attr) ==
  \E i \in DOMAIN fmt : fmt[i][1] = "fld" /\ fmt[i][2] \notin DOMAIN attr

RECURSIVE Format(_, _)
Format(fmt, attr) ==
  IF fmt = <<>> THEN <<>>
  ELSE (IF Head(fmt)[1] = "lit" THEN <<Head(fmt)[2]>> ELSE attr[Head(fmt)[2]])
       \o Format(Tail(fmt), attr)

\* dict(attr); attr.update(upd)
Update(attr, upd) ==
  [n \in DOMAIN attr \cup DOMAIN upd |-> IF n \in DOMAIN upd THEN upd[n] ELSE attr[n]]

----------------------------------------------------------------------------
(* Issue *)

\* a concerned authority is given by nickname or as a directory authority object
Nick(a) == <<"nickname", a>>
Obj(a)  == <<"object", a>>

Issue(runlevel, template, attr, to) ==
  [runlevel |-> runlevel, template |-> template, attr |-> attr, to |-> to]

SpecialTemplates ==
  {"TOO_MANY_UNMEASURED_RELAYS", "BANDWIDTH_AUTHORITIES_OUT_OF_SYNC", "LATENCY"}

\* the update of get_suppression_key that leaves the percentage of
\* TOO_MANY_UNMEASURED_RELAYS as it is
KeyUpdate_keeps_percentage(template) ==
  CASE template = "TOO_MANY_UNMEASURED_RELAYS" ->
         ("unmeasured" :> <<"0">>) @@ ("total" :> <<"0">>)
    [] template = "BANDWIDTH_AUTHORITIES_OUT_OF_SYNC" ->
         ("authorities" :> <<>>)
    [] template = "LATENCY" ->
         ("authority" :> <<>>) @@ ("time_taken" :> <<>>) @@ ("median_time" :> <<>>)
         @@ ("authority_times" :> <<>>)

\* the attributes get_suppression_key blanks out, per template
KeyUpdate(template) ==
  CASE template = "TOO_MANY_UNMEASURED_RELAYS" ->
         ("unmeasured" :> <<"0">>) @@ ("total" :> <<"0">>) @@ ("percentage" :> <<"0">>)
    [] template = "BANDWIDTH_AUTHORITIES_OUT_OF_SYNC" ->
         ("authorities" :> <<>>)
    [] template = "LATENCY" ->
         ("authority" :> <<>>) @@ ("time_taken" :> <<>>) @@ ("median_time" :> <<>>)
         @@ ("authority_times" :> <<>>)

get_message(issue, c) ==
  IF issue.template \in DOMAIN c.msg /\ ~FormatRaises(c.msg[issue.template], issue.attr)
  THEN Format(c.msg[issue.template], issue.attr)
  ELSE <<>>

get_runlevel(issue) == issue.runlevel

\* Issue.__str__
IssueStr(issue, c) == <<get_runlevel(issue), ":", " ">> \o get_message(issue, c)

\* get_suppression_key raises KeyError (template missing, or a field of it missing)
KeyRaises(issue, c) ==
  /\ issue.template \in SpecialTemplates
  /\ \/ issue.template \notin DOMAIN c.msg
     \/ FormatRaises(c.msg[issue.template], Update(issue.attr, KeyUpdate(issue.template)))

get_suppression_key(issue, c) ==
  IF issue.template \in SpecialTemplates
  THEN Replace(Format(c.msg[issue.template], Update(issue.attr, KeyUpdate(issue.template))))
  ELSE Replace(get_message(issue, c))

\* a configured suppression value is a string, here the sequence of its characters
DigitValue ==
  ("0" :> 0) @@ ("1" :> 1) @@ ("2" :> 2) @@ ("3" :> 3) @@ ("4" :> 4)
  @@ ("5" :> 5) @@ ("6" :> 6) @@ ("7" :> 7) @@ ("8" :> 8) @@ ("9" :> 9)

IsDigits(s) == s # <<>> /\ \A i \in DOMAIN s : s[i] \in DOMAIN DigitValue

RECURSIVE DigitsValue(_)
DigitsValue(s) ==
  IF s = <<>> THEN 0
  ELSE 10 * DigitsValue(SubSeq(s, 1, Len(s) - 1)) + DigitValue[s[Len(s)]]

\* int(s) raises ValueError unless s is a run of digits with an optional sign
IntRaises(s) ==
  ~(IsDigits(s) \/ (s # <<>> /\ Head(s) \in {"-", "+"} /\ IsDigits(Tail(s))))

\* int(s) when it does not raise
IntOf(s) ==
  IF Head(s) = "-" THEN 0 - DigitsValue(Tail(s))
  ELSE IF Head(s) = "+" THEN DigitsValue(Tail(s))
  ELSE DigitsValue(s)

\* get_suppression_duration with a value that int() rejects read as no suppression
get_suppression_duration_zero_when_rejected(issue, c) ==
  IF issue.template \in DOMAIN c.suppression
  THEN IF IntRaises(c.suppression[issue.template]) THEN 0
       ELSE IntOf(c.suppression[issue.template])
  ELSE IF get_runlevel(issue) = NOTICE THEN NOTICE_DEFAULT_HOURS
       ELSE IF get_runlevel(issue) = WARNING THEN WARNING_DEFAULT_HOURS
       ELSE ERROR_DEFAULT_HOURS

get_suppression_duration(issue, c) ==
  IF issue.template \in DOMAIN c.suppression /\ ~IntRaises(c.suppression[issue.template])
  THEN IntOf(c.suppression[issue.template])
  ELSE IF get_runlevel(issue) = NOTICE THEN NOTICE_DEFAULT_HOURS
       ELSE IF get_runlevel(issue) = WARNING THEN WARNING_DEFAULT_HOURS
       ELSE ERROR_DEFAULT_HOURS

get_destinations(issue, c) ==
  [a \in {issue.to[i] : i \in DOMAIN issue.to} |->
     IF a[1] = "nickname" /\ a[2] \in DOMAIN c.contact_address
     THEN [known |-> TRUE, address |-> c.contact_address[a[2]],
           bcc |-> a[2] \in c.contact_via_bcc]
     ELSE [known |-> FALSE, address |-> "", bcc |-> FALSE]]

----------------------------------------------------------------------------
(* The suppression store *)

EmptyStore == [k \in {} |-> 0]
NoFile == [exists |-> FALSE, data |-> EmptyStore]
File(s) == [exists |-> TRUE, data |-> s]

\* config.get(key, 0)
StoreGet(store, key) == IF key \in DOMAIN store THEN store[key] ELSE 0

\* config.set(key, value, overwrite = True)
StoreSet(store, key, t) ==
  [k \in DOMAIN store \cup {key} |-> IF k = key THEN t ELSE store[k]]

suppression_time(hours) == SECONDS_PER_HOUR * hours + GRACE_SECONDS

\* is_rate_limited with the boundary second counted as still suppressed
is_rate_limited_off_by_one(issue, c, store, t) ==
  LET key == get_suppression_key(issue, c)
      hours == get_suppression_duration(issue, c)
  IN IF hours = 0 THEN TRUE
     ELSE suppression_time(hours) - (t - StoreGet(store, key)) >= 0

\* the value is_rate_limited returns when get_suppression_key does not raise
is_rate_limited(issue, c, store, t) ==
  LET key == get_suppression_key(issue, c)
      hours == get_suppression_duration(issue, c)
  IN IF hours = 0 THEN TRUE
     ELSE LET last_seen == StoreGet(store, key)
              suppression_time_remaining == suppression_time(hours) - (t - last_seen)
          IN IF suppression_time_remaining <= 0 THEN FALSE ELSE TRUE

\* rate_limit_notice that leaves a still suppressed key as it is
rate_limit_notice_unless_limited(issue, c, store, t) ==
  LET key == get_suppression_key(issue, c)
      hours == get_suppression_duration(issue, c)
  IN IF hours = 0 \/ suppression_time(hours) - (t - StoreGet(store, key)) > 0
     THEN store ELSE StoreSet(store, key, t)

\* the store rate_limit_notice leaves in memory when get_suppression_key does not raise
rate_limit_notice(issue, c, store, t) ==
  LET key == get_suppression_key(issue, c)
      hours == get_suppression_duration(issue, c)
  IN IF hours = 0 THEN store ELSE StoreSet(store, key, t)

\* config.save() happens only on the recording path of rate_limit_notice
rate_limit_notice_file(issue, c, store, file, t) ==
  IF get_suppression_duration(issue, c) = 0 THEN file
  ELSE File(rate_limit_notice(issue, c, store, t))

----------------------------------------------------------------------------
(* Configuration: message templates, suppression overrides, contacts *)

\* the directory authorities, in the order of DIRECTORY_AUTHORITIES.values();
\* an authority without v3ident does not vote
DIRECTORY_AUTHORITIES ==
  << [nickname |-> "moria1", v3ident |-> TRUE],
     [nickname |-> "tor26",  v3ident |-> TRUE],
     [nickname |-> "Tonga",  v3ident |-> FALSE],
     [nickname |-> "dizum",  v3ident |-> TRUE] >>

VotingAuthorities ==
  SelectSeq(DIRECTORY_AUTHORITIES, LAMBDA authority : authority.v3ident)

MsgCatalogue ==
  ("AUTHORITY_UNAVAILABLE" :>
      <<L("Unable"), L(" "), L("to"), L(" "), L("get"), L(" "), F("fetch_type"),
        L(" "), F("authority")>>)
  @@ ("LATENCY" :>
      <<L("Slow"), L(" "), F("authority"), L(" "), F("time_taken")>>)
  @@ ("TOO_MANY_UNMEASURED_RELAYS" :>
      <<F("authority"), L(" "), L("lacks"), L(" "), F("unmeasured"), L("/"), F("total"),
        L(" "), F("percentage")>>)
  @@ ("BANDWIDTH_AUTHORITIES_OUT_OF_SYNC" :>
      <<L("Bandwidth"), L(" "), L("differs"), L(" "), F("authorities")>>)
  @@ ("CONSENSUS_METHOD_UNSUPPORTED" :>
      <<L("Method"), L(" "), L("unsupported"), L(" "), F("authorities")>>)
  @@ ("MISSING_VOTES" :>
      <<L("Missing"), L(" "), L("votes"), L(" "), F("authorities")>>)
  @@ ("UNABLE_TO_REACH_ORPORT" :>
      <<L("Unreachable"), L(" "), F("authority"), L(" "), F("error")>>)

Templates == DOMAIN MsgCatalogue

Restrict(f, S) == [x \in S |-> f[x]]

Contacts == ("moria1" :> "moria1@example.org") @@ ("tor26" :> "tor26@example.org")
ViaBcc == {"tor26"}

Config(msg, suppression) ==
  [msg |-> msg, suppression |-> suppression,
   contact_address |-> Contacts, contact_via_bcc |-> ViaBcc]

NoSuppression == [t \in {} |-> <<>>]

\* every template configured, no suppression override
CfgFull == Config(MsgCatalogue, NoSuppression)
\* no template configured at all
CfgNoMsg == Config(Restrict(MsgCatalogue, {}), NoSuppression)
\* the templates of the fetch issues and of one checker are missing
CfgPartial ==
  Config(Restrict(MsgCatalogue, Templates \ {"LATENCY", "MISSING_VOTES",
                                             "BANDWIDTH_AUTHORITIES_OUT_OF_SYNC"}),
         NoSuppression)
\* suppression overrides: numeric, zero, negative and non-numeric values
CfgOverride ==
  Config(MsgCatalogue,
         ("AUTHORITY_UNAVAILABLE" :> <<"1">>)
         @@ ("CONSENSUS_METHOD_UNSUPPORTED" :> <<"0">>)
         @@ ("UNABLE_TO_REACH_ORPORT" :> <<"-", "1">>)
         @@ ("MISSING_VOTES" :> <<"d", "a", "y">>)
         @@ ("LATENCY" :> <<"2", ".", "5">>))

Configs == {CfgFull, CfgNoMsg, CfgPartial, CfgOverride}

----------------------------------------------------------------------------
(* The suppression functions called one at a time *)

Attr1(n, v) == (n :> <<v>>)

\* unmeasured_relays, line 583: the issue about an authority that lacks measurements
UnmeasuredIssue(nickname, unmeasured, total, percentage) ==
  Issue(NOTICE, "TOO_MANY_UNMEASURED_RELAYS",
        Attr1("authority", nickname) @@ Attr1("unmeasured", ToString(unmeasured))
        @@ Attr1("total", ToString(total)) @@ Attr1("percentage", ToString(percentage)),
        <<Obj(nickname)>>)

\* issues of one authority that differ in unmeasured, total and percentage only
UnmeasuredIssues ==
  { UnmeasuredIssue("moria1", 1, 20, 5), UnmeasuredIssue("moria1", 3, 30, 10) }

RateIssues ==
  { Issue(ERROR, "AUTHORITY_UNAVAILABLE",
          Attr1("fetch_type", "consensus") @@ Attr1("authority", "moria1"),
          <<Nick("moria1")>>),
    Issue(WARNING, "CONSENSUS_METHOD_UNSUPPORTED",
          Attr1("authorities", "moria1"), <<Nick("moria1")>>),
    Issue(NOTICE, "MISSING_VOTES",
          Attr1("authorities", "moria1"), <<Nick("moria1")>>),
    Issue(NOTICE, "LATENCY",
          Attr1("authority", "dizum") @@ Attr1("time_taken", "6.0s")
          @@ Attr1("median_time", "1.0s") @@ Attr1("authority_times", "times"),
          <<Nick("dizum")>>) }

hoursOf(issue) == get_suppression_duration(issue, cfg)
keyOf(issue)   == get_suppression_key(issue, cfg)

\* the clock steps that reach the end of each suppression period and the second before
TickSizes ==
  {1} \cup { suppression_time(hoursOf(i)) - 1 : i \in {j \in RateIssues : hoursOf(j) > 0} }

\* the clock values at most n steps away from T0
RECURSIVE ClockValues(_)
ClockValues(n) ==
  IF n = 0 THEN {T0}
  ELSE LET R == ClockValues(n - 1) IN R \cup {t + d : t \in R, d \in TickSizes}

NoCall == [op |-> "none"]

NothingProduced == [consensus |-> <<>>, vote |-> <<>>, firing |-> {}]

\* no checker is called
NoArg == [checker |-> "none"]
NotReturned == [returned |-> "nothing"]
ChecksIdle == arg = NoArg /\ ret = NotReturned

\* sybil_checker and fingerprint_change_checker do not run
NoFingerprintsFile == [exists |-> FALSE, data |-> {}, mtime |-> 0]
NotRun == [ran |-> FALSE]
SybilIdle == fingerprints_file = NoFingerprintsFile /\ sybil_run = NotRun
NoAlarm == [for |-> {}, before |-> EmptyStore, changes |-> EmptyStore, runs |-> 0]
ChangesIdle ==
  /\ fingerprint_changes = EmptyStore /\ last_notified = EmptyStore /\ alarm_for = NoAlarm

\* util.send and fetch_url have not been called
NotFetching == [state |-> "idle"]
ToolsIdle == to_addresses = <<"tor-consensus-health@lists.torproject.org">> /\ fetch = NotFetching

OthersIdle == ChecksIdle /\ SybilIdle /\ ChangesIdle /\ ToolsIdle

RunIdle ==
  /\ pc = "idle" /\ issues = <<>> /\ is_all_suppressed = TRUE /\ idx = 0
  /\ destinations = <<>> /\ calls = <<>> /\ escaped = ""
  /\ fetched = [consensus |-> {}, vote |-> {}]
  /\ produced = NothingProduced
  /\ disk0 = NoFile /\ run_start = 0

InitRate ==
  /\ cfg \in Configs
  /\ now = T0
  /\ mem = EmptyStore
  /\ disk = NoFile
  /\ last = NoCall
  /\ noted = EmptyStore
  /\ RunIdle
  /\ OthersIdle

Tick(d) ==
  /\ now + d \in ClockValues(MaxTicks)
  /\ now' = now + d
  /\ last' = NoCall
  /\ UNCHANGED <<otherVars, cfg, mem, disk, noted, runVars>>

CallIsRateLimited(issue) ==
  /\ last' = IF KeyRaises(issue, cfg)
             THEN [op |-> "is_rate_limited", issue |-> issue, at |-> now, raised |-> TRUE,
                   result |-> FALSE]
             ELSE [op |-> "is_rate_limited", issue |-> issue, at |-> now, raised |-> FALSE,
                   result |-> is_rate_limited(issue, cfg, mem, now)]
  /\ UNCHANGED <<otherVars, cfg, now, mem, disk, noted, runVars>>

CallRateLimitNotice(issue) ==
  /\ last' = [op |-> "rate_limit_notice", issue |-> issue, at |-> now,
              raised |-> KeyRaises(issue, cfg), result |-> FALSE]
  /\ IF KeyRaises(issue, cfg)
     THEN UNCHANGED <<mem, disk, noted>>
     ELSE /\ mem' = rate_limit_notice(issue, cfg, mem, now)
          /\ disk' = rate_limit_notice_file(issue, cfg, mem, disk, now)
          /\ noted' = IF hoursOf(issue) = 0 THEN noted
                      ELSE StoreSet(noted, keyOf(issue),
                                    [t |-> now, h |-> hoursOf(issue), by |-> issue])
  /\ UNCHANGED <<otherVars, cfg, now, runVars>>

NextRate ==
  \/ \E d \in TickSizes : Tick(d)
  \/ \E issue \in RateIssues : CallIsRateLimited(issue)
  \/ \E issue \in RateIssues : CallRateLimitNotice(issue)

SpecRate == InitRate /\ [][NextRate]_vars

\* the same functions called with the issues of unmeasured_relays
NextUnmeasured ==
  \/ \E d \in TickSizes : Tick(d)
  \/ \E issue \in UnmeasuredIssues : CallIsRateLimited(issue)
  \/ \E issue \in UnmeasuredIssues : CallRateLimitNotice(issue)

SpecUnmeasured == InitRate /\ [][NextUnmeasured]_vars

----------------------------------------------------------------------------
(* Fetching the documents *)

RECURSIVE Flatten(_)
Flatten(ss) == IF ss = <<>> THEN <<>> ELSE Head(ss) \o Flatten(Tail(ss))

\* sorted(values)
RECURSIVE InsertSorted(_, _)
InsertSorted(x, s) ==
  IF s = <<>> THEN <<x>>
  ELSE IF x <= Head(s) THEN <<x>> \o s ELSE <<Head(s)>> \o InsertSorted(x, Tail(s))

RECURSIVE Sorted(_)
Sorted(s) == IF s = <<>> THEN <<>> ELSE InsertSorted(Head(s), Sorted(Tail(s)))

\* the outcome of query.run() for one authority
FetchFailed == [ok |-> FALSE, time |-> FAST]
FetchedIn(t) == [ok |-> TRUE, time |-> t]

VotingNicknames == {VotingAuthorities[i].nickname : i \in DOMAIN VotingAuthorities}

\* the sets of authorities whose download fails in one run: none, one, all
FailurePatterns == {{}, {DIRECTORY_AUTHORITIES[1].nickname}, VotingNicknames}

ConsensusOutcomes ==
  {out \in [VotingNicknames -> {FetchFailed, FetchedIn(FAST), FetchedIn(SLOW)}] :
     {n \in VotingNicknames : ~out[n].ok} \in FailurePatterns}
VoteOutcomes ==
  {out \in [VotingNicknames -> {FetchFailed, FetchedIn(FAST)}] :
     {n \in VotingNicknames : ~out[n].ok} \in FailurePatterns}

UnavailableIssue(label, nickname) ==
  Issue(ERROR, "AUTHORITY_UNAVAILABLE",
        Attr1("fetch_type", label) @@ Attr1("authority", nickname)
        @@ Attr1("url", "url") @@ Attr1("error", "timeout"),
        <<Nick(nickname)>>)

LatencyIssue(nickname, time_taken, median_time) ==
  Issue(NOTICE, "LATENCY",
        Attr1("authority", nickname) @@ Attr1("time_taken", ToString(time_taken))
        @@ Attr1("median_time", ToString(median_time)) @@ Attr1("authority_times", "times"),
        <<Nick(nickname)>>)

\* _get_documents(label, resource), with out the outcome of each authority's download:
\* raised (the IndexError of the median of no download time), documents, issues
\* (len(times_taken) / 2 is the integer division of Python 2; sequences start at 1 here)
get_documents(label, out) ==
  LET authorities == [i \in DOMAIN VotingAuthorities |-> VotingAuthorities[i].nickname]
      retrieved == SelectSeq(authorities, LAMBDA n : out[n].ok)
      failed == SelectSeq(authorities, LAMBDA n : ~out[n].ok)
      unavailable == [i \in DOMAIN failed |-> UnavailableIssue(label, failed[i])]
      times_taken == [i \in DOMAIN retrieved |-> out[retrieved[i]].time]
      median_time == Sorted(times_taken)[(Len(times_taken) \div 2) + 1]
      slow == SelectSeq(retrieved, LAMBDA n : out[n].time > median_time * LATENCY_FACTOR)
  IN IF label = "consensus" /\ times_taken = <<>>
     THEN [raised |-> TRUE, documents |-> {}, issues |-> <<>>]
     ELSE [raised |-> FALSE,
           documents |-> {retrieved[i] : i \in DOMAIN retrieved},
           issues |-> IF label = "consensus"
                      THEN unavailable
                           \o [i \in DOMAIN slow |->
                                 LatencyIssue(slow[i], out[slow[i]].time, median_time)]
                      ELSE unavailable]

get_consensuses(out) == get_documents("consensus", out)
get_votes(out) == get_documents("vote", out)

----------------------------------------------------------------------------
(* The checkers: what each registered checker reports is the environment's choice *)

MaxCheckerIssues == 2   \* checkers that report an issue in one run

is_orport_reachable(unreachable) ==
  LET failing == SelectSeq(DIRECTORY_AUTHORITIES, LAMBDA a : a.nickname \in unreachable)
  IN [i \in DOMAIN failing |->
        Issue(WARNING, "UNABLE_TO_REACH_ORPORT",
              Attr1("authority", failing[i].nickname) @@ Attr1("address", "address")
              @@ Attr1("port", "port") @@ Attr1("error", "refused"),
              <<Obj(failing[i].nickname)>>)]

\* the reporting checkers, in registration order, with what each returns
CheckerReports ==
  << <<Issue(WARNING, "CONSENSUS_METHOD_UNSUPPORTED",
             Attr1("authorities", "tor26"), <<Nick("tor26")>>)>>,
     <<Issue(NOTICE, "MISSING_VOTES",
             Attr1("authorities", "dizum"), <<Nick("dizum")>>)>>,
     <<Issue(NOTICE, "BANDWIDTH_AUTHORITIES_OUT_OF_SYNC",
             Attr1("authorities", "counts"), <<Nick("moria1"), Nick("tor26")>>)>>,
     is_orport_reachable({"moria1", "dizum"}) >>

CheckerChoices ==
  {S \in SUBSET DOMAIN CheckerReports : Cardinality(S) <= MaxCheckerIssues}

\* run_checks(consensuses, votes) when no checker raises: the issues of the checkers in
\* firing, flattened in registration order
run_checks(firing) ==
  Flatten([i \in DOMAIN CheckerReports |-> IF i \in firing THEN CheckerReports[i] ELSE <<>>])

----------------------------------------------------------------------------
(* util.send and the run of main() *)

\* util.send(subject, body, to, cc, bcc): the message handed to sendmail, and whether
\* sendmail accepted it (util.send raises otherwise)
send(subject, body, to, cc, bcc, ok) ==
  [subject |-> subject, body |-> body, to |-> to, cc |-> cc, bcc |-> bcc,
   recipients |-> to \cup cc \cup bcc, ok |-> ok]

\* Scan with is_all_suppressed starting as False
RECURSIVE ScanFlagStartsFalse(_, _, _, _)
ScanFlagStartsFalse(iss, c, store, t) ==
  IF iss = <<>> THEN "not_suppressed"
  ELSE IF KeyRaises(Head(iss), c) THEN "raised"
  ELSE ScanFlagStartsFalse(Tail(iss), c, store, t)

\* the loop over the issues that decides is_all_suppressed
RECURSIVE Scan(_, _, _, _)
Scan(iss, c, store, t) ==
  IF iss = <<>> THEN "all_suppressed"
  ELSE IF KeyRaises(Head(iss), c) THEN "raised"
  ELSE IF ~is_rate_limited(Head(iss), c, store, t) THEN "not_suppressed"
  ELSE Scan(Tail(iss), c, store, t)

\* the files a run may find: none, or the file a run left that, some time ago, had
\* notified about the two issues of PriorIssues
PriorIssues ==
  <<CheckerReports[1][1], CheckerReports[2][1]>>

RECURSIVE MarkAll(_, _, _, _)
MarkAll(iss, c, store, t) ==
  IF iss = <<>> THEN store
  ELSE MarkAll(Tail(iss), c, rate_limit_notice(Head(iss), c, store, t), t)

PriorAges == {SECONDS_PER_HOUR, suppression_time(WARNING_DEFAULT_HOURS)}

InitDisks(c) ==
  {NoFile} \cup {File(MarkAll(PriorIssues, c, EmptyStore, T0 - age)) : age \in PriorAges}

Init ==
  /\ cfg \in Configs
  /\ now = T0
  /\ mem = EmptyStore
  /\ disk \in InitDisks(cfg)
  /\ last = NoCall
  /\ noted = EmptyStore
  /\ RunIdle
  /\ OthersIdle

Raise(where) ==
  /\ pc' = "raised"
  /\ escaped' = where

\* main, lines 219-246: load the configuration and the store, fetch, run the checks
MainCollect(cout, vout, firing, checker_raises) ==
  /\ pc = "idle"
  /\ mem' = IF disk.exists THEN disk.data ELSE EmptyStore
  /\ disk0' = disk
  /\ run_start' = now
  /\ LET c == get_consensuses(cout)
         v == get_votes(vout)
     IN IF c.raised
        THEN /\ Raise("fetch")
             /\ fetched' = [consensus |-> {}, vote |-> {}]
             /\ UNCHANGED <<issues, produced>>
        ELSE /\ fetched' = [consensus |-> c.documents, vote |-> v.documents]
             /\ produced' = [consensus |-> c.issues, vote |-> v.issues,
                           firing |-> IF checker_raises THEN {} ELSE firing]
             /\ IF c.documents # {} /\ v.documents # {}
                THEN IF checker_raises
                     THEN Raise("check") /\ UNCHANGED issues
                     ELSE /\ issues' = c.issues \o v.issues \o run_checks(firing)
                          /\ pc' = "scan"
                          /\ UNCHANGED escaped
                ELSE /\ firing = {} /\ ~checker_raises
                     /\ issues' = c.issues \o v.issues
                     /\ pc' = "scan"
                     /\ UNCHANGED escaped
  /\ UNCHANGED <<otherVars, cfg, now, disk, rateVars, is_all_suppressed, idx, destinations, calls>>

\* main, lines 248-255 and 284-290: decide whether anything is to be sent
MainScan ==
  /\ pc = "scan"
  /\ LET r == Scan(issues, cfg, mem, now)
     IN CASE r = "raised" ->
               Raise("suppression") /\ UNCHANGED <<is_all_suppressed, idx>>
          [] r = "not_suppressed" ->
               /\ is_all_suppressed' = FALSE
               /\ idx' = 1
               /\ pc' = "mark"
               /\ UNCHANGED escaped
          [] r = "all_suppressed" ->
               /\ pc' = "done"
               /\ UNCHANGED <<is_all_suppressed, idx, escaped>>
  /\ UNCHANGED <<otherVars, cfg, now, mem, disk, rateVars, issues, destinations, calls, fetched, produced,
                 disk0, run_start>>

\* main, lines 258-260: one turn of the loop that marks the issues as sent
MainMark ==
  /\ pc = "mark"
  /\ idx <= Len(issues)
  /\ IF KeyRaises(issues[idx], cfg)
     THEN /\ Raise("suppression")
          /\ UNCHANGED <<mem, disk, destinations, idx>>
     ELSE /\ mem' = rate_limit_notice(issues[idx], cfg, mem, now)
          /\ disk' = rate_limit_notice_file(issues[idx], cfg, mem, disk, now)
          /\ destinations' = Update(destinations, get_destinations(issues[idx], cfg))
          /\ idx' = idx + 1
          /\ pc' = IF idx = Len(issues) THEN "send1" ELSE "mark"
          /\ UNCHANGED escaped
  /\ UNCHANGED <<otherVars, cfg, now, rateVars, issues, is_all_suppressed, calls, fetched, produced,
                 disk0, run_start>>

Addresses(dest, via_bcc) ==
  {dest[a].address : a \in {b \in DOMAIN dest : dest[b].known /\ dest[b].bcc = via_bcc}}

\* the notification with a body that leaves out the issues that were rate limited when
\* the run started
primary_call_unsuppressed_only(iss, dest, c, ok) ==
  LET shown == SelectSeq(iss, LAMBDA issue : ~is_rate_limited(issue, c, disk0.data, run_start))
  IN send(EMAIL_SUBJECT, [i \in DOMAIN shown |-> IssueStr(shown[i], c)], TO_ADDRESSES,
          Addresses(dest, FALSE), Addresses(dest, TRUE), ok)

\* main, lines 274-278: the notification for the operators and the authorities
primary_call(iss, dest, c, ok) ==
  send(EMAIL_SUBJECT, [i \in DOMAIN iss |-> IssueStr(iss[i], c)], TO_ADDRESSES,
       Addresses(dest, FALSE), Addresses(dest, TRUE), ok)

\* main, lines 282-283: the notification for #tor-bots
announce_call(iss, c, ok) ==
  send(ANNOUNCE_SUBJECT,
       [i \in DOMAIN iss |-> <<"[consensus-health]", " ">> \o IssueStr(iss[i], c)],
       {ANNOUNCE_ADDRESS}, {}, {}, ok)

\* the report sent without its to argument
script_error_call_default_to(ok) ==
  send(SCRIPT_ERROR_SUBJECT, <<<<"traceback">>>>, TO_ADDRESSES, {}, {}, ok)

\* __main__, line 808: the report of an exception that escaped main
script_error_call(ok) ==
  send(SCRIPT_ERROR_SUBJECT, <<<<"traceback">>>>, {ERROR_ADDRESS}, {}, {}, ok)

MainSendPrimary(ok) ==
  /\ pc = "send1"
  /\ calls' = Append(calls, primary_call(issues, destinations, cfg, ok))
  /\ IF ok THEN pc' = "send2" /\ UNCHANGED escaped ELSE Raise("send")
  /\ UNCHANGED <<otherVars, cfg, now, mem, disk, rateVars, issues, is_all_suppressed, idx,
                 destinations, fetched, produced, disk0, run_start>>

MainSendAnnounce(ok) ==
  /\ pc = "send2"
  /\ calls' = Append(calls, announce_call(issues, cfg, ok))
  /\ IF ok THEN pc' = "done" /\ UNCHANGED escaped ELSE Raise("send")
  /\ UNCHANGED <<otherVars, cfg, now, mem, disk, rateVars, issues, is_all_suppressed, idx,
                 destinations, fetched, produced, disk0, run_start>>

\* __main__, lines 802-808: the wrapper reports the exception that escaped main
ScriptError(ok) ==
  /\ pc = "raised"
  /\ calls' = Append(calls, script_error_call(ok))
  /\ pc' = "reported"
  /\ UNCHANGED <<otherVars, cfg, now, mem, disk, rateVars, issues, is_all_suppressed, idx,
                 destinations, fetched, produced, escaped, disk0, run_start>>

\* the process is terminated in the middle of a run
Kill ==
  /\ pc \in {"scan", "mark", "send1", "send2", "raised"}
  /\ pc' = "killed"
  /\ UNCHANGED <<otherVars, cfg, now, mem, disk, rateVars, issues, is_all_suppressed, idx,
                 destinations, calls, fetched, produced, escaped, disk0, run_start>>

MaxRunSeconds == 1   \* seconds that pass while a run marks its issues

\* the clock advances during the run
RunTick ==
  /\ pc = "mark"
  /\ now - run_start < MaxRunSeconds
  /\ now' = now + 1
  /\ UNCHANGED <<otherVars, cfg, mem, disk, rateVars, runVars>>

Next ==
  \/ \E cout \in ConsensusOutcomes, vout \in VoteOutcomes, firing \in CheckerChoices,
        checker_raises \in BOOLEAN : MainCollect(cout, vout, firing, checker_raises)
  \/ MainScan
  \/ MainMark
  \/ \E ok \in BOOLEAN : MainSendPrimary(ok)
  \/ \E ok \in BOOLEAN : MainSendAnnounce(ok)
  \/ \E ok \in BOOLEAN : ScriptError(ok)
  \/ Kill
  \/ RunTick

Spec == Init /\ [][Next]_vars

----------------------------------------------------------------------------
(* The checkers as functions of the documents they are given *)

\* the variables of the consensus health run, which a checker call leaves alone
healthVars == <<cfg, now, mem, disk, rateVars, runVars>>

HealthIdle ==
  /\ cfg = CfgFull /\ now = T0 /\ mem = EmptyStore /\ disk = NoFile
  /\ last = NoCall /\ noted = EmptyStore
  /\ RunIdle
  /\ SybilIdle /\ ChangesIdle /\ ToolsIdle

\* what a checker returns: None, one issue or a list of issues (the issues as a set
\* where the order is that of a dict or set iteration)
Returned(kind, iss) == [returned |-> kind, issues |-> iss]

BADEXIT == "BadExit"

\* a vote's routers: a mapping of the fingerprints it lists to their router status entry
RouterEntries(fingerprints, entries) ==
  UNION {[S -> entries] : S \in SUBSET fingerprints}

\* bad_exits_in_sync with the relays a vote lists without the flag and the relays it
\* does not list taken for each other
bad_exits_in_sync_swapped(latest_consensus, votes) ==
  LET flagged(a) == {f \in DOMAIN votes[a].routers : BADEXIT \in votes[a].routers[f].flags}
      bad_exits == {a \in DOMAIN votes : flagged(a) # {}}
      agreed_bad_exits == {f \in UNION {flagged(a) : a \in bad_exits} :
                             \A a \in bad_exits : f \in flagged(a)}
      disagreed_bad_exits == UNION {flagged(a) : a \in bad_exits} \ agreed_bad_exits
      with_flag(f) == {a \in bad_exits : f \in flagged(a)}
      without_flag(f) == {a \in bad_exits \ with_flag(f) : f \notin DOMAIN votes[a].routers}
      not_in_vote(f) == {a \in bad_exits \ with_flag(f) : f \in DOMAIN votes[a].routers}
  IN IF bad_exits = {} THEN Returned("None", {})
     ELSE Returned("list",
            {Issue(NOTICE, "BADEXIT_OUT_OF_SYNC",
                   [fingerprint |-> f, with_flag |-> with_flag(f),
                    without_flag |-> without_flag(f), not_in_vote |-> not_in_vote(f)],
                   {Nick(a) : a \in bad_exits}) :
               f \in {g \in disagreed_bad_exits :
                        without_flag(g) # {} /\ g \in latest_consensus.routers}})

\* bad_exits_in_sync that reports a relay whether or not the latest consensus lists it
bad_exits_in_sync_any_consensus(latest_consensus, votes) ==
  LET flagged(a) == {f \in DOMAIN votes[a].routers : BADEXIT \in votes[a].routers[f].flags}
      bad_exits == {a \in DOMAIN votes : flagged(a) # {}}
      agreed_bad_exits == {f \in UNION {flagged(a) : a \in bad_exits} :
                             \A a \in bad_exits : f \in flagged(a)}
      disagreed_bad_exits == UNION {flagged(a) : a \in bad_exits} \ agreed_bad_exits
      with_flag(f) == {a \in bad_exits : f \in flagged(a)}
      without_flag(f) == {a \in bad_exits \ with_flag(f) : f \in DOMAIN votes[a].routers}
      not_in_vote(f) == {a \in bad_exits \ with_flag(f) : f \notin DOMAIN votes[a].routers}
  IN IF bad_exits = {} THEN Returned("None", {})
     ELSE Returned("list",
            {Issue(NOTICE, "BADEXIT_OUT_OF_SYNC",
                   [fingerprint |-> f, with_flag |-> with_flag(f),
                    without_flag |-> without_flag(f), not_in_vote |-> not_in_vote(f)],
                   {Nick(a) : a \in bad_exits}) :
               f \in {g \in disagreed_bad_exits : without_flag(g) # {}}})

\* bad_exits_in_sync(latest_consensus, consensuses, votes), lines 646-699; the counts
\* attribute is kept as its three lists
bad_exits_in_sync(latest_consensus, votes) ==
  LET flagged(a) == {f \in DOMAIN votes[a].routers : BADEXIT \in votes[a].routers[f].flags}
      bad_exits == {a \in DOMAIN votes : flagged(a) # {}}
      agreed_bad_exits == {f \in UNION {flagged(a) : a \in bad_exits} :
                             \A a \in bad_exits : f \in flagged(a)}
      disagreed_bad_exits == UNION {flagged(a) : a \in bad_exits} \ agreed_bad_exits
      with_flag(f) == {a \in bad_exits : f \in flagged(a)}
      without_flag(f) == {a \in bad_exits \ with_flag(f) : f \in DOMAIN votes[a].routers}
      not_in_vote(f) == {a \in bad_exits \ with_flag(f) : f \notin DOMAIN votes[a].routers}
  IN IF bad_exits = {} THEN Returned("None", {})
     ELSE Returned("list",
            {Issue(NOTICE, "BADEXIT_OUT_OF_SYNC",
                   [fingerprint |-> f, with_flag |-> with_flag(f),
                    without_flag |-> without_flag(f), not_in_vote |-> not_in_vote(f)],
                   {Nick(a) : a \in bad_exits}) :
               f \in {g \in disagreed_bad_exits :
                        without_flag(g) # {} /\ g \in latest_consensus.routers}})

\* the relays and the votes bad_exits_in_sync is called with
BadExitFingerprints == {"F", "G"}
BadExitAuthorities == {"moria1", "tor26", "dizum"}
BadExitVotes ==
  [BadExitAuthorities ->
     [routers : RouterEntries(BadExitFingerprints, [flags : {{}, {BADEXIT}}])]]

InitBadExits ==
  /\ HealthIdle
  /\ arg \in [checker : {"bad_exits_in_sync"},
              latest_consensus : [routers : SUBSET BadExitFingerprints],
              votes : BadExitVotes]
  /\ ret = NotReturned

CallBadExitsInSync ==
  /\ arg.checker = "bad_exits_in_sync"
  /\ ret = NotReturned
  /\ ret' = bad_exits_in_sync(arg.latest_consensus, arg.votes)
  /\ UNCHANGED <<healthVars, arg, sybilVars, changeVars, toolVars>>

NextBadExits == CallBadExitsInSync

SpecBadExits == InitBadExits /\ [][NextBadExits]_vars

\* desc.measured: None, or the measured bandwidth
NotMeasured == <<>>
Measured(bandwidth) == <<bandwidth>>

\* sum(counts.values())
RECURSIVE SumValues(_)
SumValues(counts) ==
  IF DOMAIN counts = {} THEN 0
  ELSE LET k == CHOOSE x \in DOMAIN counts : TRUE
       IN counts[k] + SumValues([x \in DOMAIN counts \ {k} |-> counts[x]])

\* bandwidth_authorities_in_sync(latest_consensus, consensuses, votes), lines 702-725;
\* sum(...) / len(...) is the integer division of Python 2, and count > 1.2 * average
\* is compared in tenths; the authorities attribute is kept as its entries
bandwidth_authorities_in_sync(votes) ==
  LET measured(a) == {f \in DOMAIN votes[a].routers : votes[a].routers[f].measured # NotMeasured}
      reporting == {a \in DOMAIN votes : measured(a) # {}}
      measurement_counts == [a \in reporting |-> Cardinality(measured(a))]
      average == SumValues(measurement_counts) \div Cardinality(reporting)
  IN IF reporting = {} THEN Returned("None", {})
     ELSE IF \E a \in reporting : \/ 10 * measurement_counts[a] > 12 * average
                                   \/ 10 * measurement_counts[a] < 8 * average
     THEN Returned("issue",
            {Issue(NOTICE, "BANDWIDTH_AUTHORITIES_OUT_OF_SYNC",
                   [authorities |-> {<<a, measurement_counts[a]>> : a \in reporting}],
                   {Nick(a) : a \in reporting})})
     ELSE Returned("None", {})

\* a vote that lists n relays with a measurement and one without
VoteMeasuring(n) ==
  [routers |-> [f \in 1 .. n + 1 |->
                  [measured |-> IF f <= n THEN Measured(f) ELSE NotMeasured]]]

\* the numbers of measured relays in the votes bandwidth_authorities_in_sync is called with
MeasuredCounts == {0, 3, 4, 5, 6, 50, 95, 100, 105}

InitBandwidth ==
  /\ HealthIdle
  /\ arg \in [checker : {"bandwidth_authorities_in_sync"},
              votes : [BadExitAuthorities -> {VoteMeasuring(n) : n \in MeasuredCounts}]]
  /\ ret = NotReturned

CallBandwidthAuthoritiesInSync ==
  /\ arg.checker = "bandwidth_authorities_in_sync"
  /\ ret = NotReturned
  /\ ret' = bandwidth_authorities_in_sync(arg.votes)
  /\ UNCHANGED <<healthVars, arg, sybilVars, changeVars, toolVars>>

NextBandwidth == CallBandwidthAuthoritiesInSync

SpecBandwidth == InitBandwidth /\ [][NextBandwidth]_vars

\* datetime.timedelta(days = n), in seconds
DAY == 24 * SECONDS_PER_HOUR
WEEK_DAYS == 7
TWO_WEEKS_DAYS == 14
THREE_WEEKS_DAYS == 21

\* certificate_expiration(latest_consensus, consensuses, votes), lines 460-479, with
\* current_time the value of datetime.datetime.now(); times are in seconds, the list of
\* issues is kept as a set (its order is that of votes.items())
certificate_expiration(current_time, votes) ==
  Returned("list",
    UNION {LET cert_expiration == votes[a].directory_authorities[1].key_certificate.expires
               remaining == cert_expiration - current_time
               issue(runlevel, duration) ==
                 Issue(runlevel, "CERTIFICATE_ABOUT_TO_EXPIRE",
                       Attr1("duration", duration) @@ Attr1("authority", a), <<Nick(a)>>)
           IN IF remaining <= WEEK_DAYS * DAY THEN {issue(WARNING, "week")}
              ELSE IF remaining <= TWO_WEEKS_DAYS * DAY THEN {issue(WARNING, "two weeks")}
              ELSE IF remaining <= THREE_WEEKS_DAYS * DAY THEN {issue(NOTICE, "three weeks")}
              ELSE {} : a \in DOMAIN votes})

\* datetime.datetime.now() is the naive local time of the host: the time in UTC plus
\* the offset of the host's time zone; the certificate's expires is a naive time in UTC
UtcOffsets == {0, SECONDS_PER_HOUR, 0 - SECONDS_PER_HOUR}
datetime_now(utc, utc_offset) == utc + utc_offset

\* the times, from now, at which the certificates of the votes expire
ExpiryDelays ==
  {0 - DAY, 1, 100 * DAY}
  \cup UNION {{d * DAY - 1, d * DAY, d * DAY + 1} :
               d \in {WEEK_DAYS, TWO_WEEKS_DAYS, THREE_WEEKS_DAYS}}

VoteSignedWith(expires) ==
  [directory_authorities |-> <<[key_certificate |-> [expires |-> expires]]>>]

InitCertificates ==
  /\ HealthIdle
  /\ arg \in [checker : {"certificate_expiration"},
              utc_offset : UtcOffsets,
              votes : [{"moria1", "tor26"} -> {VoteSignedWith(now + d) : d \in ExpiryDelays}]]
  /\ ret = NotReturned

CallCertificateExpiration ==
  /\ arg.checker = "certificate_expiration"
  /\ ret = NotReturned
  /\ ret' = certificate_expiration(datetime_now(now, arg.utc_offset), arg.votes)
  /\ UNCHANGED <<healthVars, arg, sybilVars, changeVars, toolVars>>

NextCertificates == CallCertificateExpiration

SpecCertificates == InitCertificates /\ [][NextCertificates]_vars

\* set(versions)
Range(versions) == {versions[i] : i \in DOMAIN versions}

\* the elements of a set in the order in which a for loop meets them
RECURSIVE Iterate(_)
Iterate(S) ==
  IF S = {} THEN <<>>
  ELSE LET x == CHOOSE y \in S : TRUE IN <<x>> \o Iterate(S \ {x})

\* _version_difference_str with the consensus and the vote taken for each other
version_difference_str_swapped(authority, consensus_versions, vote_versions) ==
  LET extra == Iterate(Range(consensus_versions) \ Range(vote_versions))
      missing == Iterate(Range(vote_versions) \ Range(consensus_versions))
  IN <<authority>> \o Flatten([i \in DOMAIN extra |-> <<" ", "+", extra[i]>>])
                   \o Flatten([i \in DOMAIN missing |-> <<" ", "-", missing[i]>>])

\* _version_difference_str(authority, consensus_versions, vote_versions), lines 400-419:
\* the message as its tokens, ' +%s' being " ", "+" and the version
version_difference_str(authority, consensus_versions, vote_versions) ==
  LET extra == Iterate(Range(vote_versions) \ Range(consensus_versions))
      missing == Iterate(Range(consensus_versions) \ Range(vote_versions))
  IN <<authority>> \o Flatten([i \in DOMAIN extra |-> <<" ", "+", extra[i]>>])
                   \o Flatten([i \in DOMAIN missing |-> <<" ", "-", missing[i]>>])

\* different_recommended_client_version(latest_consensus, consensuses, votes), lines
\* 374-384; client_versions are lists and compared as lists; the differences attribute
\* is kept as the set of its entries
different_recommended_client_version(latest_consensus, votes) ==
  LET differing == {a \in DOMAIN votes :
                      /\ votes[a].client_versions # <<>>
                      /\ latest_consensus.client_versions # votes[a].client_versions}
  IN IF differing = {} THEN Returned("None", {})
     ELSE Returned("issue",
            {Issue(NOTICE, "DIFFERENT_RECOMMENDED_VERSION",
                   [type |-> "client",
                    differences |->
                      {version_difference_str(a, latest_consensus.client_versions,
                                              votes[a].client_versions) : a \in differing}],
                   {Nick(a) : a \in differing})})

\* the recommended versions of a document: lists without repetition of at most
\* MaxVersions of these versions, in any order
MaxVersions == 2
Versions == {"0.3.5.8", "0.4.0.5", "0.4.1.1-alpha"}
VersionLists ==
  {l \in UNION {[1 .. n -> Versions] : n \in 0 .. MaxVersions} :
     \A i, j \in DOMAIN l : i # j => l[i] # l[j]}

InitVersions ==
  /\ HealthIdle
  /\ arg \in [checker : {"different_recommended_client_version"},
              latest_consensus : [client_versions : VersionLists],
              votes : [{"moria1", "tor26"} -> [client_versions : VersionLists]]]
  /\ ret = NotReturned

CallDifferentRecommendedClientVersion ==
  /\ arg.checker = "different_recommended_client_version"
  /\ ret = NotReturned
  /\ ret' = different_recommended_client_version(arg.latest_consensus, arg.votes)
  /\ UNCHANGED <<healthVars, arg, sybilVars, changeVars, toolVars>>

NextVersions == CallDifferentRecommendedClientVersion

SpecVersions == InitVersions /\ [][NextVersions]_vars

----------------------------------------------------------------------------
(* The checkers of the consensuses and of the routers the documents list *)

STALE_ERROR_THRESHOLD == 3
UNMEASURED_PERCENTAGE == 5

\* a checker that raises returns nothing: the exception leaves the call
Raised(exception) == Returned(exception, {})

\* missing_latest_consensus(latest_consensus, consensuses, votes), lines 346-358, with
\* current_time the value of datetime.datetime.now(); the authorities attribute is kept
\* as the set it joins
missing_latest_consensus(current_time, consensuses) ==
  LET stale_authorities == {a \in DOMAIN consensuses :
                              current_time - consensuses[a].valid_after > SECONDS_PER_HOUR}
  IN IF stale_authorities = {} THEN Returned("None", {})
     ELSE Returned("issue",
            {Issue(IF Cardinality(stale_authorities) > STALE_ERROR_THRESHOLD
                   THEN ERROR ELSE WARNING,
                   "MISSING_LATEST_CONSENSUS",
                   [authorities |-> stale_authorities],
                   {Nick(a) : a \in stale_authorities})})

\* set([auth.fingerprint for auth in consensus.directory_authorities])
VotesOf(consensus) ==
  {consensus.directory_authorities[i].fingerprint : i \in DOMAIN consensus.directory_authorities}

\* consensuses_have_same_votes(latest_consensus, consensuses, votes), lines 482-500
consensuses_have_same_votes(current_time, consensuses) ==
  LET fresh_consensuses == {a \in DOMAIN consensuses :
                              current_time - consensuses[a].valid_after < SECONDS_PER_HOUR}
      all_votes == UNION {VotesOf(consensuses[a]) : a \in fresh_consensuses}
      authorities_missing_votes == {a \in fresh_consensuses :
                                      VotesOf(consensuses[a]) # all_votes}
  IN IF authorities_missing_votes = {} THEN Returned("None", {})
     ELSE Returned("issue",
            {Issue(NOTICE, "MISSING_VOTES",
                   [authorities |-> authorities_missing_votes],
                   {Nick(a) : a \in authorities_missing_votes})})

AUTHORITY == "Authority"

\* set(DIRECTORY_AUTHORITIES.keys())
KnownAuthorities == {DIRECTORY_AUTHORITIES[i].nickname : i \in DOMAIN DIRECTORY_AUTHORITIES}

\* has_authority_flag(latest_consensus, consensuses, votes), lines 588-611: the issue
\* about extra_authorities is commented out
has_authority_flag(latest_consensus) ==
  LET routers == latest_consensus.routers
      seen_authorities == {routers[f].nickname :
                             f \in {g \in DOMAIN routers : AUTHORITY \in routers[g].flags}}
      missing_authorities == KnownAuthorities \ seen_authorities
      extra_authorities == seen_authorities \ KnownAuthorities
  IN Returned("list",
       IF missing_authorities # {}
       THEN {Issue(WARNING, "MISSING_AUTHORITIES",
                   [authorities |-> missing_authorities],
                   {Nick(a) : a \in missing_authorities})}
       ELSE {})

\* DIRECTORY_AUTHORITIES[authority].is_bandwidth_authority
BandwidthAuthorities == {"moria1", "tor26"}

\* 'if desc.measured': a measurement of 0 counts as none
HasMeasurement(desc) == desc.measured # NotMeasured /\ desc.measured # Measured(0)

\* unmeasured_relays(latest_consensus, consensuses, votes), lines 562-585: the division
\* of line 580 raises for a total of 0, and line 583 reads the nickname attribute of
\* authority, the str key of votes; the loop stops at the first vote that raises, in
\* the order of votes.items(), so the result is the set of the possible outcomes
unmeasured_relays(latest_consensus, votes) ==
  LET consensus_fingerprints == DOMAIN latest_consensus.routers
      listed(a) == DOMAIN votes[a].routers \cap consensus_fingerprints
      measured(a) == Cardinality({f \in listed(a) : HasMeasurement(votes[a].routers[f])})
      unmeasured(a) == Cardinality({f \in listed(a) : ~HasMeasurement(votes[a].routers[f])})
      total(a) == measured(a) + unmeasured(a)
      bandwidth == DOMAIN votes \cap BandwidthAuthorities
      dividing_by_zero == {a \in bandwidth : total(a) = 0}
      reporting == {a \in bandwidth \ dividing_by_zero :
                      (100 * unmeasured(a)) \div total(a) >= UNMEASURED_PERCENTAGE}
  IN IF dividing_by_zero = {} /\ reporting = {} THEN {Returned("list", {})}
     ELSE {Raised("AttributeError") : a \in reporting}
          \cup {Raised("ZeroDivisionError") : a \in dividing_by_zero}

\* consensus_method_unsupported(latest_consensus, consensuses, votes), lines 361-371
consensus_method_unsupported(latest_consensus, votes) ==
  LET incompatible_authorities ==
        {a \in DOMAIN votes : latest_consensus.consensus_method \notin votes[a].consensus_methods}
  IN IF incompatible_authorities = {} THEN Returned("None", {})
     ELSE Returned("issue",
            {Issue(WARNING, "CONSENSUS_METHOD_UNSUPPORTED",
                   [authorities |-> incompatible_authorities],
                   {Nick(a) : a \in incompatible_authorities})})

\* different_recommended_server_version(latest_consensus, consensuses, votes), lines
\* 387-397
different_recommended_server_version(latest_consensus, votes) ==
  LET differing == {a \in DOMAIN votes :
                      /\ votes[a].server_versions # <<>>
                      /\ latest_consensus.server_versions # votes[a].server_versions}
  IN IF differing = {} THEN Returned("None", {})
     ELSE Returned("issue",
            {Issue(NOTICE, "DIFFERENT_RECOMMENDED_VERSION",
                   [type |-> "server",
                    differences |->
                      {version_difference_str(a, latest_consensus.server_versions,
                                              votes[a].server_versions) : a \in differing}],
                   {Nick(a) : a \in differing})})

\* CONFIG['known_params'], and the parameters whose name starts with 'bwauth'
KnownParams == {"circwindow", "CircuitPriorityHalflifeMsec"}
BwauthParams == {"bwauthpid"}

\* unknown_consensus_parameters(latest_consensus, consensuses, votes), lines 422-438;
\* the parameters attribute is kept as the entries it joins
unknown_consensus_parameters(votes) ==
  LET unknown_params(a) == {k \in DOMAIN votes[a].params :
                              k \notin KnownParams /\ k \notin BwauthParams}
      unknown_entries == {a \in DOMAIN votes : unknown_params(a) # {}}
  IN IF unknown_entries = {} THEN Returned("None", {})
     ELSE Returned("issue",
            {Issue(NOTICE, "UNKNOWN_CONSENSUS_PARAMETERS",
                   [parameters |-> {<<a, {<<k, votes[a].params[k]>> : k \in unknown_params(a)}>> :
                                      a \in unknown_entries}],
                   {Nick(a) : a \in unknown_entries})})

\* vote_parameters_mismatch_consensus(latest_consensus, consensuses, votes), lines
\* 441-457: latest_consensus.params.get(param_key) is None for a parameter the
\* consensus lacks, which differs from every value
vote_parameters_mismatch_consensus(latest_consensus, votes) ==
  LET mismatching_params(a) ==
        {k \in DOMAIN votes[a].params :
           \/ k \notin DOMAIN latest_consensus.params
           \/ latest_consensus.params[k] # votes[a].params[k]}
      mismatching_entries == {a \in DOMAIN votes : mismatching_params(a) # {}}
  IN IF mismatching_entries = {} THEN Returned("None", {})
     ELSE Returned("issue",
            {Issue(NOTICE, "MISMATCH_CONSENSUS_PARAMETERS",
                   [parameters |-> {<<a, {<<k, votes[a].params[k]>> : k \in mismatching_params(a)}>> :
                                      a \in mismatching_entries}],
                   {Nick(a) : a \in mismatching_entries})})

\* voting_bandwidth_scanners(latest_consensus, consensuses, votes), lines 532-559
voting_bandwidth_scanners(votes) ==
  LET contains_measured_bandwidth(a) ==
        \E f \in DOMAIN votes[a].routers : HasMeasurement(votes[a].routers[f])
      missing_authorities == {a \in DOMAIN votes \cap BandwidthAuthorities :
                                ~contains_measured_bandwidth(a)}
      extra_authorities == {a \in DOMAIN votes \ BandwidthAuthorities :
                              contains_measured_bandwidth(a)}
  IN Returned("list",
       (IF missing_authorities = {} THEN {}
        ELSE {Issue(IF Cardinality(missing_authorities) > 1 THEN ERROR ELSE WARNING,
                    "MISSING_BANDWIDTH_SCANNERS",
                    [authorities |-> missing_authorities],
                    {Nick(a) : a \in missing_authorities})})
       \cup
       (IF extra_authorities = {} THEN {}
        ELSE {Issue(NOTICE, "EXTRA_BANDWIDTH_SCANNERS",
                    [authorities |-> extra_authorities],
                    {Nick(a) : a \in extra_authorities})}))

\* authority.fingerprint of the entries of DIRECTORY_AUTHORITIES
AuthorityFingerprint ==
  [a \in KnownAuthorities |->
     CASE a = "moria1" -> "9695DFC35FFEB861329B9F1AB04C46397020CE31"
       [] a = "tor26" -> "847B1F850344D7876491A54892F904934E4EB85D"
       [] a = "Tonga" -> "4A0CCD2DDC7995083D73F5D667100C8A5831F16D"
       [] OTHER -> "7EA6EAD6FD83083C538F44038BBFA077587DD755"]

\* the order of the tor versions
VersionRank ==
  [v \in Versions |-> CASE v = "0.3.5.8" -> 1 [] v = "0.4.0.5" -> 2 [] OTHER -> 3]

\* is_recommended_versions(latest_consensus, consensuses, votes), lines 629-643:
\* min() of an empty list raises ValueError
is_recommended_versions(latest_consensus) ==
  IF latest_consensus.server_versions = <<>> THEN Raised("ValueError")
  ELSE LET min_version ==
             CHOOSE v \in Range(latest_consensus.server_versions) :
               \A w \in Range(latest_consensus.server_versions) :
                 VersionRank[v] <= VersionRank[w]
           routers == latest_consensus.routers
           outdated_authorities ==
             {a \in KnownAuthorities :
                /\ AuthorityFingerprint[a] \in DOMAIN routers
                /\ routers[AuthorityFingerprint[a]].version # <<>>
                /\ VersionRank[routers[AuthorityFingerprint[a]].version[1]]
                     < VersionRank[min_version]}
       IN IF outdated_authorities = {} THEN Returned("None", {})
          ELSE Returned("issue",
                 {Issue(WARNING, "TOR_OUT_OF_DATE",
                        [authorities |->
                           {<<a, routers[AuthorityFingerprint[a]].version[1]>> :
                              a \in outdated_authorities}],
                        {Nick(a) : a \in outdated_authorities})})

\* the ages of the consensuses the authorities serve: valid_after is that long ago
ConsensusAges ==
  {SECONDS_PER_HOUR \div 2, SECONDS_PER_HOUR - 1, SECONDS_PER_HOUR, SECONDS_PER_HOUR + 1}

\* the authorities a consensus was fetched from, for the checks of its age
ServingAuthorities == {"moria1", "tor26", "dizum", "gabelmoo", "dannenberg"}

\* consensus.directory_authorities: the authorities whose votes the consensus lists
VoteListings ==
  {<<>>, <<[fingerprint |-> "v3-moria1"]>>,
   <<[fingerprint |-> "v3-moria1"], [fingerprint |-> "v3-tor26"]>>}

\* the router status entries of a consensus, for has_authority_flag
FlaggedEntries == [nickname : KnownAuthorities \cup {"Unnamed"}, flags : {{}, {AUTHORITY}}]

\* the router status entries of a vote, for unmeasured_relays
MeasuredEntries == [measured : {NotMeasured, Measured(0), Measured(10)}]

InitDocuments ==
  /\ HealthIdle
  /\ \/ arg \in [checker : {"missing_latest_consensus"},
                  utc_offset : UtcOffsets,
                  consensuses : [ServingAuthorities ->
                                   {[valid_after |-> now - age] :
                                      age \in ConsensusAges \ {SECONDS_PER_HOUR - 1}}]]
     \/ arg \in [checker : {"consensuses_have_same_votes"},
                  utc_offset : UtcOffsets,
                  consensuses : [BadExitAuthorities ->
                                   {[valid_after |-> now - age, directory_authorities |-> l] :
                                      age \in ConsensusAges \ {SECONDS_PER_HOUR + 1},
                                      l \in VoteListings}]]
     \/ arg \in [checker : {"has_authority_flag"},
                  latest_consensus :
                    [routers : RouterEntries({"F", "G", "H"}, FlaggedEntries)]]
     \/ arg \in [checker : {"unmeasured_relays"},
                  latest_consensus : [routers : RouterEntries(BadExitFingerprints, {[flags |-> {}]})],
                  votes : [{"moria1", "tor26"} ->
                             [routers : RouterEntries(BadExitFingerprints, MeasuredEntries)]]]
     \/ arg \in [checker : {"bandwidth_authorities_in_sync"},
                  votes : [BadExitAuthorities -> {VoteMeasuring(0), VoteMeasuring(3)}]]
  /\ ret = NotReturned

CallMissingLatestConsensus ==
  /\ arg.checker = "missing_latest_consensus"
  /\ ret = NotReturned
  /\ ret' = missing_latest_consensus(datetime_now(now, arg.utc_offset), arg.consensuses)
  /\ UNCHANGED <<healthVars, arg, sybilVars, changeVars, toolVars>>

CallConsensusesHaveSameVotes ==
  /\ arg.checker = "consensuses_have_same_votes"
  /\ ret = NotReturned
  /\ ret' = consensuses_have_same_votes(datetime_now(now, arg.utc_offset), arg.consensuses)
  /\ UNCHANGED <<healthVars, arg, sybilVars, changeVars, toolVars>>

CallHasAuthorityFlag ==
  /\ arg.checker = "has_authority_flag"
  /\ ret = NotReturned
  /\ ret' = has_authority_flag(arg.latest_consensus)
  /\ UNCHANGED <<healthVars, arg, sybilVars, changeVars, toolVars>>

CallUnmeasuredRelays ==
  /\ arg.checker = "unmeasured_relays"
  /\ ret = NotReturned
  /\ ret' \in unmeasured_relays(arg.latest_consensus, arg.votes)
  /\ UNCHANGED <<healthVars, arg, sybilVars, changeVars, toolVars>>

NextDocuments ==
  \/ CallMissingLatestConsensus
  \/ CallConsensusesHaveSameVotes
  \/ CallHasAuthorityFlag
  \/ CallUnmeasuredRelays
  \/ CallBandwidthAuthoritiesInSync

SpecDocuments == InitDocuments /\ [][NextDocuments]_vars

----------------------------------------------------------------------------
(* run_checks on the documents *)

\* run_checks, lines 304-309, that prefers the last of the consensuses with the
\* latest valid_after
RECURSIVE latest_of_last(_, _, _)
latest_of_last(order, consensuses, latest) ==
  IF order = <<>> THEN latest
  ELSE latest_of_last(Tail(order), consensuses,
         IF \/ latest = <<>>
            \/ consensuses[Head(order)].valid_after >= consensuses[latest[1]].valid_after
         THEN <<Head(order)>> ELSE latest)

\* run_checks, lines 304-309: the loop over consensuses.values(), met in this order;
\* latest is empty for None, or holds the authority whose consensus is the latest so
\* far (a valid_after, being a datetime, is never false)
RECURSIVE latest_of(_, _, _)
latest_of(order, consensuses, latest) ==
  IF order = <<>> THEN latest
  ELSE latest_of(Tail(order), consensuses,
         IF \/ latest = <<>>
            \/ consensuses[Head(order)].valid_after > consensuses[latest[1]].valid_after
         THEN <<Head(order)>> ELSE latest)

\* checker_functions, lines 311-328
checker_functions ==
  <<"missing_latest_consensus", "consensus_method_unsupported",
    "different_recommended_client_version", "different_recommended_server_version",
    "unknown_consensus_parameters", "certificate_expiration",
    "consensuses_have_same_votes", "voting_bandwidth_scanners", "has_authority_flag",
    "is_recommended_versions", "bad_exits_in_sync", "bandwidth_authorities_in_sync",
    "is_orport_reachable">>

\* checker(latest_consensus, consensuses, votes), line 333; unreachable are the
\* authorities whose ORPort util.check_reachability cannot reach
Check(checker, latest_consensus, consensuses, votes, current_time, unreachable) ==
  CASE checker = "missing_latest_consensus" ->
         missing_latest_consensus(current_time, consensuses)
    [] checker = "consensus_method_unsupported" ->
         consensus_method_unsupported(latest_consensus, votes)
    [] checker = "different_recommended_client_version" ->
         different_recommended_client_version(latest_consensus, votes)
    [] checker = "different_recommended_server_version" ->
         different_recommended_server_version(latest_consensus, votes)
    [] checker = "unknown_consensus_parameters" -> unknown_consensus_parameters(votes)
    [] checker = "vote_parameters_mismatch_consensus" ->
         vote_parameters_mismatch_consensus(latest_consensus, votes)
    [] checker = "certificate_expiration" -> certificate_expiration(current_time, votes)
    [] checker = "consensuses_have_same_votes" ->
         consensuses_have_same_votes(current_time, consensuses)
    [] checker = "voting_bandwidth_scanners" -> voting_bandwidth_scanners(votes)
    [] checker = "has_authority_flag" -> has_authority_flag(latest_consensus)
    [] checker = "is_recommended_versions" -> is_recommended_versions(latest_consensus)
    [] checker = "bad_exits_in_sync" ->
         bad_exits_in_sync([routers |-> DOMAIN latest_consensus.routers], votes)
    [] checker = "bandwidth_authorities_in_sync" -> bandwidth_authorities_in_sync(votes)
    [] checker = "is_orport_reachable" ->
         Returned("list",
           Range(is_orport_reachable(
             {a \in unreachable : AuthorityFingerprint[a] \in DOMAIN latest_consensus.routers})))

\* run_checks(consensuses, votes), lines 293-343, with the consensuses met in the given
\* order: the consensus taken as the latest and, checker by checker, the issues added
\* to all_issues; a checker that raises ends the call
run_checks_documents(order, consensuses, votes, current_time, unreachable) ==
  LET latest == latest_of(order, consensuses, <<>>)[1]
      result == [i \in DOMAIN checker_functions |->
                   Check(checker_functions[i], consensuses[latest], consensuses, votes,
                         current_time, unreachable)]
      raising == {i \in DOMAIN result : result[i].returned \notin {"None", "issue", "list"}}
      first == CHOOSE i \in raising : \A j \in raising : i <= j
  IN IF raising = {}
     THEN [returned |-> "list", latest_consensus |-> latest,
           all_issues |-> [i \in DOMAIN result |-> result[i].issues]]
     ELSE [returned |-> result[first].returned, latest_consensus |-> latest,
           all_issues |-> [i \in 1 .. first - 1 |-> result[i].issues]]

\* the params of a document
ParamChoices ==
  {("circwindow" :> 1000), ("circwindow" :> 2000),
   ("circwindow" :> 1000) @@ ("bwauthpid" :> 1)}

\* the router status entries of the documents
RunRouters ==
  (AuthorityFingerprint["moria1"] :>
     [nickname |-> "moria1", flags |-> {AUTHORITY}, version |-> <<"0.4.0.5">>,
      measured |-> Measured(10)])
  @@ ("F" :> [nickname |-> "Unnamed", flags |-> {BADEXIT}, version |-> <<"0.3.5.8">>,
              measured |-> Measured(10)])

\* a consensus of the given age
RunConsensus(age, server_versions, params) ==
  [valid_after |-> T0 - age, consensus_method |-> 28,
   client_versions |-> <<"0.3.5.8", "0.4.0.5">>, server_versions |-> server_versions,
   params |-> params, directory_authorities |-> <<[fingerprint |-> "v3-moria1"], [fingerprint |-> "v3-tor26"]>>,
   routers |-> RunRouters]

RunConsensuses ==
  {RunConsensus(age, kind[1], kind[2]) :
     age \in {SECONDS_PER_HOUR \div 2, SECONDS_PER_HOUR + 1},
     kind \in {<< <<"0.3.5.8", "0.4.0.5">>, ("circwindow" :> 1000) >>,
               << <<>>, ("circwindow" :> 1000) >>,
               << <<"0.4.1.1-alpha">>, ("circwindow" :> 2000) >>}}

RunVotes ==
  {[consensus_methods |-> {27, 28}, client_versions |-> <<"0.3.5.8", "0.4.0.5">>,
    server_versions |-> <<"0.3.5.8", "0.4.0.5">>, params |-> params,
    directory_authorities |-> <<[key_certificate |-> [expires |-> T0 + 100 * DAY]]>>,
    routers |-> RunRouters] : params \in ParamChoices}

\* the orders in which a dict of consensuses of some of the authorities is iterated
IterationOrders ==
  {o \in UNION {[1 .. n -> BadExitAuthorities] : n \in 1 .. Cardinality(BadExitAuthorities)} :
     \A i, j \in DOMAIN o : i # j => o[i] # o[j]}

InitRunChecks ==
  /\ HealthIdle
  /\ \E order \in IterationOrders :
       arg \in [checker : {"run_checks"},
                order : {order},
                consensuses : [Range(order) -> RunConsensuses],
                votes : [{"moria1", "dizum"} -> RunVotes],
                utc_offset : UtcOffsets,
                unreachable : {{}, {"moria1"}}]
  /\ ret = NotReturned

CallRunChecks ==
  /\ arg.checker = "run_checks"
  /\ ret = NotReturned
  /\ ret' = run_checks_documents(arg.order, arg.consensuses, arg.votes,
                                 datetime_now(now, arg.utc_offset), arg.unreachable)
  /\ UNCHANGED <<healthVars, arg, sybilVars, changeVars, toolVars>>

NextRunChecks == CallRunChecks

SpecRunChecks == InitRunChecks /\ [][NextRunChecks]_vars

----------------------------------------------------------------------------
(* util.send and the lists it is given *)

\* util.send, lines 133-140: destinations is the list object it was given as to, and
\* 'destinations += cc' and 'destinations += bcc' extend that object in place (None
\* and the empty list add nothing); the list as it is afterwards
send_destinations(to, cc, bcc) == to \o cc \o bcc

\* the recipients the callers put in cc and bcc, and the lists they pass as to
ContactLists == {<<>>, <<"tor26@example.org">>, <<"dizum@example.org">>}
ToLists == {<<ERROR_ADDRESS>>, <<ANNOUNCE_ADDRESS>>}

MaxRecipients == 3   \* the calls stop once TO_ADDRESSES has grown to this length

InitSend ==
  /\ cfg = CfgFull /\ now = T0 /\ mem = EmptyStore /\ disk = NoFile
  /\ last = NoCall /\ noted = EmptyStore
  /\ RunIdle
  /\ OthersIdle

\* a call util.send(subject, body, to, cc, bcc) of lines 108-146, without to (the
\* default, the list bound to TO_ADDRESSES) or with a list of the caller's; sendmail
\* accepts the message or raises, after the lists were joined; arg and ret record the
\* call: the list given as to as it was before and as it is after
CallSend(default, to, cc, bcc, ok) ==
  /\ Len(to_addresses) < MaxRecipients
  /\ LET given == IF default THEN to_addresses ELSE to
         after == send_destinations(given, cc, bcc)
     IN /\ arg' = [checker |-> "send", default |-> default, to |-> given, cc |-> cc,
                    bcc |-> bcc]
        /\ ret' = [returned |-> IF ok THEN "None" ELSE "raised", to |-> after,
                    header |-> given, recipients |-> after]
        /\ to_addresses' = IF default THEN after ELSE to_addresses
  /\ UNCHANGED <<healthVars, sybilVars, changeVars, fetch>>

NextSend ==
  \E default, ok \in BOOLEAN, to \in ToLists, cc, bcc \in ContactLists :
    CallSend(default, to, cc, bcc, ok)

SpecSend == InitSend /\ [][NextSend]_vars

----------------------------------------------------------------------------
(* package_versions.fetch_url *)

FETCH_ATTEMPTS == 3    \* range(3)
URLOPEN_TIMEOUT == 5   \* urllib2.urlopen(url, timeout = 5)

\* a pause of one second whatever the attempt
backoff_constant(i) == 1

\* fetch_url, line 94: time.sleep(2 ** i)
backoff(i) == 2 ^ i

\* the pages fetch_url is asked for, and what the server may answer
PackageUrls ==
  {"https://packages.debian.org/sid/ooniprobe", "https://aur.archlinux.org/packages/ooniprobe/",
   "https://trac.torproject.org/projects/tor/wiki/doc/packages"}
Pages == {"<h1>Package: tor (0.3.0.9-1)</h1>", ""}

\* urlopen(...).read() failed
OpenFailed == [ok |-> FALSE, content |-> ""]
Opened(content) == [ok |-> TRUE, content |-> content]

InitFetch ==
  /\ cfg = CfgFull /\ now = T0 /\ mem = EmptyStore /\ disk = NoFile
  /\ last = NoCall /\ noted = EmptyStore
  /\ RunIdle
  /\ ChecksIdle /\ SybilIdle /\ ChangesIdle
  /\ to_addresses = <<"tor-consensus-health@lists.torproject.org">>
  /\ fetch \in [state : {"called"}, url : PackageUrls, i : {0}, attempts : {<<>>},
                slept : {<<>>}, result : {<<>>}]

\* one round of the loop of fetch_url, lines 89-96: the attempt, which takes up to the
\* timeout, and what follows it: the return of what was read, the sleep, or IOError
FetchAttempt(outcome, taken) ==
  /\ fetch.state = "called"
  /\ fetch.i < FETCH_ATTEMPTS
  /\ LET tried == [fetch EXCEPT !.attempts = Append(@, outcome)]
     IN IF outcome.ok
        THEN /\ fetch' = [tried EXCEPT !.state = "returned", !.result = <<outcome.content>>]
             /\ now' = now + taken
        ELSE IF fetch.i < FETCH_ATTEMPTS - 1
        THEN /\ fetch' = [tried EXCEPT !.i = @ + 1, !.slept = Append(@, backoff(fetch.i))]
             /\ now' = now + taken + backoff(fetch.i)
        ELSE /\ fetch' = [tried EXCEPT !.state = "IOError"]
             /\ now' = now + taken
  /\ UNCHANGED <<cfg, mem, disk, rateVars, runVars, checkVars, sybilVars, changeVars,
                 to_addresses>>

NextFetch ==
  \E outcome \in {OpenFailed} \cup {Opened(page) : page \in Pages},
     taken \in {0, 1, URLOPEN_TIMEOUT} : FetchAttempt(outcome, taken)

SpecFetch == InitFetch /\ [][NextFetch]_vars

----------------------------------------------------------------------------
(* sybil_checker: a run of main() every hour or so *)

\* def send(subject, body, to = TO_ADDRESSES, cc = None, bcc = None)
SendParameters == {"subject", "body", "to", "cc", "bcc"}
SendRequired == {"subject", "body"}

\* a call of util.send that binds these parameter names raises TypeError: a name that
\* is no parameter, or a parameter without default that is left out
SendRaisesTypeError(names) ==
  ~(names \subseteq SendParameters /\ SendRequired \subseteq names)

SYBIL_EMAIL_SUBJECT == "Possible Sybil Attack"
NEW_RELAYS_THRESHOLD == 50
THREE_HOURS == 3 * 60 * 60

\* send_email(new_relays), lines 77-98: the calls of util.send that reach the mail
\* transport; util.send is called as util.send(EMAIL_SUBJECT, body_text = body) inside
\* try ... except Exception, which logs the exception and goes on
send_email(new_relays, ok) ==
  IF SendRaisesTypeError({"subject", "body_text"}) THEN <<>>
  ELSE <<send(SYBIL_EMAIL_SUBJECT,
              [count |-> Cardinality(new_relays), relay_entries |-> new_relays],
              TO_ADDRESSES, {}, {}, ok)>>

\* load_fingerprints(), lines 101-122
load_fingerprints(file) == IF file.exists THEN file.data ELSE {}

\* the relays of the consensus the downloader provides, by fingerprint
SmallNetwork == 10
Networks ==
  {1 .. n : n \in {SmallNetwork, SmallNetwork + NEW_RELAYS_THRESHOLD - 1,
                   SmallNetwork + NEW_RELAYS_THRESHOLD,
                   SmallNetwork + 2 * NEW_RELAYS_THRESHOLD}}
SybilConsensuses ==
  {[error |-> TRUE, relays |-> {}]} \cup [error : {FALSE}, relays : Networks]

MaxSybilHours == 5

InitSybil ==
  /\ cfg = CfgFull /\ now = T0 /\ mem = EmptyStore /\ disk = NoFile
  /\ last = NoCall /\ noted = EmptyStore
  /\ RunIdle
  /\ ChecksIdle /\ ChangesIdle /\ ToolsIdle
  /\ fingerprints_file \in
       {NoFingerprintsFile, [exists |-> TRUE, data |-> {}, mtime |-> T0 - SECONDS_PER_HOUR]}
       \cup {[exists |-> TRUE, data |-> 1 .. SmallNetwork, mtime |-> T0 - age] :
               age \in {SECONDS_PER_HOUR, THREE_HOURS, THREE_HOURS + 1}}
  /\ sybil_run = NotRun

\* main(), lines 37-74
SybilMain(consensus, ok) ==
  LET prior_fingerprints == load_fingerprints(fingerprints_file)
      seconds_ago == now - fingerprints_file.mtime
      dry_run == IF prior_fingerprints = {} THEN TRUE ELSE seconds_ago > THREE_HOURS
      current_fingerprints == consensus.relays
      new_fingerprints == current_fingerprints \ prior_fingerprints
  IN /\ IF consensus.error
        THEN UNCHANGED <<calls, fingerprints_file>>
        ELSE /\ calls' = IF ~dry_run /\ Cardinality(new_fingerprints) >= NEW_RELAYS_THRESHOLD
                         THEN calls \o send_email(new_fingerprints, ok)
                         ELSE calls
             /\ fingerprints_file' =
                  [exists |-> TRUE, data |-> prior_fingerprints \cup current_fingerprints,
                   mtime |-> now]
     /\ sybil_run' = [ran |-> TRUE, prior |-> prior_fingerprints,
                      seconds_ago |-> IF prior_fingerprints = {} THEN 0 ELSE seconds_ago,
                      error |-> consensus.error, new |-> new_fingerprints,
                      sent |-> Len(calls') - Len(calls)]
     /\ UNCHANGED <<cfg, now, mem, disk, rateVars, pc, issues, is_all_suppressed, idx,
                    destinations, fetched, produced, escaped, disk0, run_start,
                    checkVars, changeVars, toolVars>>

\* time passes between two runs
SybilTick(d) ==
  /\ now + d <= T0 + MaxSybilHours * SECONDS_PER_HOUR
  /\ now' = now + d
  /\ UNCHANGED <<cfg, mem, disk, rateVars, runVars, checkVars, sybilVars, changeVars, toolVars>>

NextSybil ==
  \/ \E consensus \in SybilConsensuses, ok \in BOOLEAN : SybilMain(consensus, ok)
  \/ \E d \in {SECONDS_PER_HOUR, THREE_HOURS + 1} : SybilTick(d)

SpecSybil == InitSybil /\ [][NextSybil]_vars

----------------------------------------------------------------------------
(* fingerprint_change_checker: runs of main() *)

CHANGE_EMAIL_SUBJECT == "Relays Changing Fingerprint"
CHANGE_TO_ADDRESSES == {"tor-network-alerts@lists.torproject.org", "gk@torproject.org"}
ONE_DAY == 24 * 60 * 60
TEN_DAYS == 10 * 24 * 60 * 60
ALARM_THRESHOLD == 10

\* the endpoints, as their 'address:or_port' keys
Endpoints == {"198.51.100.1:9001", "198.51.100.2:443"}

\* is_notification_suppressed that is satisfied with one endpoint notified recently
is_notification_suppressed_any(endpoints, store, t) ==
  \E e \in endpoints : ONE_DAY - (t - StoreGet(store, e)) >= 0

\* is_notification_suppressed(fingerprint_changes), lines 165-185, at time t
is_notification_suppressed(endpoints, store, t) ==
  ~\E e \in endpoints :
     LET suppression == ONE_DAY - (t - StoreGet(store, e))
     IN suppression < 0

\* the fingerprints of an endpoint: n of them, published hour after hour until an hour
\* ago, the first one published oldest seconds ago
PriorFingerprints(n, oldest) ==
  [fp \in 1 .. n |-> IF fp = 1 THEN T0 - oldest ELSE T0 - (n + 1 - fp) * SECONDS_PER_HOUR]

\* what a run finds in data/fingerprint_changes about one endpoint
PriorChoices ==
  {PriorFingerprints(0, ONE_DAY),
   PriorFingerprints(ALARM_THRESHOLD - 2, ONE_DAY),
   PriorFingerprints(ALARM_THRESHOLD - 1, ONE_DAY),
   PriorFingerprints(ALARM_THRESHOLD - 1, TEN_DAYS + 1)}

\* what a run finds in the last notified store about one endpoint: 0 stands for no entry
NotifiedChoices == {0, T0 - ONE_DAY - 1, T0 - ONE_DAY, T0 - SECONDS_PER_HOUR}

\* the relay the consensus lists for an endpoint: none, one with the newest fingerprint
\* already registered, or one with a fingerprint not registered yet
RelayChoices == {"absent", "same", "changed"}

\* lines 47-65 for the relay of one endpoint: the registered fingerprints afterwards
Register(prior, choice, t) ==
  IF choice = "changed" \/ (choice = "same" /\ DOMAIN prior = {})
  THEN LET fingerprint == CHOOSE n \in 1 .. Cardinality(DOMAIN prior) + 1 : n \notin DOMAIN prior
           added == [fp \in DOMAIN prior \cup {fingerprint} |->
                       IF fp = fingerprint THEN t - SECONDS_PER_HOUR ELSE prior[fp]]
       IN [fp \in {x \in DOMAIN added : ~(t - added[x] > TEN_DAYS)} |-> added[fp]]
  ELSE prior

\* lines 50 and 64: the relay registers a fingerprint and the endpoint has ten by then
Alarms(prior, choice, t) ==
  /\ choice = "changed" \/ (choice = "same" /\ DOMAIN prior = {})
  /\ Cardinality(DOMAIN Register(prior, choice, t)) >= ALARM_THRESHOLD

\* the store with the entries of value 0 left out
StoreOf(f) == [e \in {x \in DOMAIN f : f[x] # 0} |-> f[e]]

MaxChangeRuns == 2

InitChanges ==
  /\ cfg = CfgFull /\ now = T0 /\ mem = EmptyStore /\ disk = NoFile
  /\ last = NoCall /\ noted = EmptyStore
  /\ RunIdle
  /\ ChecksIdle /\ SybilIdle /\ ToolsIdle
  /\ fingerprint_changes \in [Endpoints -> PriorChoices]
  /\ last_notified \in {StoreOf(f) : f \in [Endpoints -> NotifiedChoices]}
  /\ alarm_for = NoAlarm

\* the notification of lines 102-107 (the suffix that names a single endpoint in the
\* subject is left out)
change_call(endpoints, ok) ==
  send(CHANGE_EMAIL_SUBJECT, [relays |-> endpoints], CHANGE_TO_ADDRESSES, {}, {}, ok)

\* main(), lines 34-67 and, when no notification is due, line 118
ChangeCollect(consensus) ==
  /\ pc \in {"idle", "done", "reported"}
  /\ alarm_for.runs < MaxChangeRuns
  /\ LET changes == [e \in Endpoints |-> Register(fingerprint_changes[e], consensus[e], now)]
         alarming == {e \in Endpoints : Alarms(fingerprint_changes[e], consensus[e], now)}
     IN /\ alarm_for' = [for |-> alarming, before |-> last_notified, changes |-> changes,
                         runs |-> alarm_for.runs + 1]
        /\ IF alarming # {} /\ ~is_notification_suppressed(alarming, last_notified, now)
           THEN pc' = "send" /\ UNCHANGED fingerprint_changes
           ELSE pc' = "done" /\ fingerprint_changes' = changes
  /\ run_start' = now
  /\ calls' = <<>>
  /\ escaped' = ""
  /\ UNCHANGED <<cfg, now, mem, disk, rateVars, issues, is_all_suppressed, idx,
                 destinations, fetched, produced, disk0, checkVars, sybilVars, last_notified,
                 toolVars>>

\* main(), line 107: util.send raises when the mail transport fails
ChangeSend(ok) ==
  /\ pc = "send"
  /\ calls' = Append(calls, change_call(alarm_for.for, ok))
  /\ IF ok THEN pc' = "mark" /\ UNCHANGED escaped ELSE Raise("send")
  /\ UNCHANGED <<cfg, now, mem, disk, rateVars, issues, is_all_suppressed, idx,
                 destinations, fetched, produced, disk0, run_start, checkVars, sybilVars,
                 changeVars, toolVars>>

\* main(), lines 111-118: register the notification, save both files
ChangeMark ==
  /\ pc = "mark"
  /\ last_notified' = [e \in DOMAIN last_notified \cup alarm_for.for |->
                         IF e \in alarm_for.for THEN now ELSE last_notified[e]]
  /\ fingerprint_changes' = alarm_for.changes
  /\ pc' = "done"
  /\ UNCHANGED <<cfg, now, mem, disk, rateVars, issues, is_all_suppressed, idx,
                 destinations, calls, fetched, produced, escaped, disk0, run_start,
                 checkVars, sybilVars, alarm_for,
                 toolVars>>

\* __main__, lines 188-194
ChangeScriptError(ok) ==
  /\ pc = "raised"
  /\ calls' = Append(calls, script_error_call(ok))
  /\ pc' = "reported"
  /\ UNCHANGED <<cfg, now, mem, disk, rateVars, issues, is_all_suppressed, idx,
                 destinations, fetched, produced, escaped, disk0, run_start, checkVars,
                 sybilVars, changeVars, toolVars>>

\* time passes: a second while the mail is handed over, a day or so between two runs
ChangeTick(d) ==
  /\ \/ pc = "mark" /\ d = 1 /\ now = run_start
     \/ /\ pc \in {"done", "reported"} /\ d >= ONE_DAY
        /\ alarm_for.runs < MaxChangeRuns
        /\ now + d <= T0 + alarm_for.runs * (ONE_DAY + 2)
  /\ now' = now + d
  /\ UNCHANGED <<cfg, mem, disk, rateVars, runVars, checkVars, sybilVars, changeVars, toolVars>>

NextChanges ==
  \/ \E consensus \in [Endpoints -> RelayChoices] : ChangeCollect(consensus)
  \/ \E ok \in BOOLEAN : ChangeSend(ok)
  \/ ChangeMark
  \/ \E ok \in BOOLEAN : ChangeScriptError(ok)
  \/ \E d \in {1, ONE_DAY, ONE_DAY + 1} : ChangeTick(d)

SpecChanges == InitChanges /\ [][NextChanges]_vars

----------------------------------------------------------------------------
(* Claims about the suppression functions, checked under SpecRate *)

Answered == last.op = "is_rate_limited" /\ ~last.raised

\* C1: for an issue whose suppression duration is 0 hours is_rate_limited returns
\* False, whatever the store holds and whatever the time is.
C1_ZeroDurationNeverLimited ==
  (Answered /\ hoursOf(last.issue) = 0) => last.result = FALSE

\* C3 (as claimed): with h the non-zero duration of the issue whose notice was recorded
\* at time t, is_rate_limited of any issue with the same key returns True before
\* t + h*3600 + 1800 and False from then on; for a key never recorded it returns False.
C3_SameKeyAnyIssue ==
  Answered =>
    IF keyOf(last.issue) \in DOMAIN noted
    THEN last.result = (last.at < noted[keyOf(last.issue)].t
                                  + noted[keyOf(last.issue)].h * 3600 + 1800)
    ELSE hoursOf(last.issue) # 0 => last.result = FALSE

\* C3 (amended): the same, for the issues with that key whose own suppression duration
\* is the non-zero h of the recorded notice.
C3_SameKeySameDuration ==
  (Answered /\ hoursOf(last.issue) # 0) =>
    IF keyOf(last.issue) \in DOMAIN noted
    THEN noted[keyOf(last.issue)].h = hoursOf(last.issue) =>
           last.result = (last.at < noted[keyOf(last.issue)].t
                                    + hoursOf(last.issue) * 3600 + 1800)
    ELSE last.result = FALSE

\* C3 witness: a recorded key is asked about exactly when its period has elapsed.
C3_Witness ==
  /\ Answered
  /\ hoursOf(last.issue) > 0
  /\ keyOf(last.issue) \in DOMAIN noted
  /\ noted[keyOf(last.issue)].h = hoursOf(last.issue)
  /\ last.at = noted[keyOf(last.issue)].t + hoursOf(last.issue) * 3600 + 1800
  /\ last.result = FALSE

\* C4: is_rate_limited returns True iff now - last_sent < duration_hours*3600 + 1800,
\* with last_sent the stored time of the issue's key, 0 when the key is absent.
C4_LimitedIffWithinPeriod ==
  Answered =>
    last.result = (last.at - StoreGet(mem, keyOf(last.issue))
                     < hoursOf(last.issue) * 3600 + 1800)

\* C8: with its template missing from the configuration an issue's message is empty
\* and computing its suppression key does not raise.
C8_MissingTemplateDoesNotRaise ==
  (last.op # "none" /\ last.issue.template \notin DOMAIN cfg.msg) =>
    (~last.raised /\ get_message(last.issue, cfg) = <<>>)

\* the default suppression durations of the claim, in hours
DefaultHours(runlevel) ==
  IF runlevel = NOTICE THEN 24 ELSE IF runlevel = WARNING THEN 4 ELSE 0

\* s is a decimal numeral: digits with an optional sign and an optional fraction
IsNumeric(s) ==
  LET body == IF s # <<>> /\ Head(s) \in {"-", "+"} THEN Tail(s) ELSE s
      dots == {i \in DOMAIN body : body[i] = "."}
  IN \/ IsDigits(body)
     \/ \E i \in dots : /\ dots = {i}
                         /\ IsDigits(SubSeq(body, 1, i - 1))
                         /\ IsDigits(SubSeq(body, i + 1, Len(body)))

\* ten times the number a numeral with at most one fractional digit stands for
Tenths(s) ==
  LET negative == Head(s) = "-"
      body == IF Head(s) \in {"-", "+"} THEN Tail(s) ELSE s
      magnitude == IF IsDigits(body) THEN 10 * DigitsValue(body)
                   ELSE DigitsValue(SelectSeq(body, LAMBDA ch : ch # "."))
  IN IF negative THEN 0 - magnitude ELSE magnitude

\* the suppression functions were called with an issue
Called == last.op # "none"

\* the value configured for the template of the last call's issue
Configured == cfg.suppression[last.issue.template]
IsConfigured == last.issue.template \in DOMAIN cfg.suppression

\* C14 (as claimed): an issue's suppression duration is the value configured for its
\* template when that is present and numeric, and otherwise the default of its
\* runlevel: 24 hours for NOTICE, 4 for WARNING, 0 for ERROR.
C14_NumericValueOrDefault ==
  Called =>
    IF IsConfigured /\ IsNumeric(Configured)
    THEN 10 * hoursOf(last.issue) = Tenths(Configured)
    ELSE hoursOf(last.issue) = DefaultHours(last.issue.runlevel)

\* C14 (amended): an issue's suppression duration is the value configured for its
\* template when that is present and a whole number written without a fraction (what
\* int() accepts), and otherwise, also for a numeral with a fraction, the default of
\* its runlevel: 24 hours for NOTICE, 4 for WARNING, 0 for ERROR.
C14_IntegerValueOrDefault ==
  Called =>
    IF IsConfigured /\ IsNumeric(Configured) /\ "." \notin {Configured[i] : i \in DOMAIN Configured}
    THEN 10 * hoursOf(last.issue) = Tenths(Configured)
    ELSE hoursOf(last.issue) = DefaultHours(last.issue.runlevel)

\* C14 witness: the duration of an issue whose template is configured with a text that
\* is no number was computed, after that of one configured with a whole number.
C14_Witness ==
  /\ Called /\ IsConfigured /\ ~IsNumeric(Configured)
  /\ \E k \in DOMAIN noted :
       noted[k].by.template \in DOMAIN cfg.suppression /\ noted[k].h = 1

----------------------------------------------------------------------------
(* Claims about the issues of unmeasured_relays, checked under SpecUnmeasured *)

\* the notice recorded under the key of the issue, if any, is still in its period at t
RecordedAndInPeriod(issue, t) ==
  /\ keyOf(issue) \in DOMAIN noted
  /\ t < noted[keyOf(issue)].t + suppression_time(noted[keyOf(issue)].h)

\* C13: two TOO_MANY_UNMEASURED_RELAYS issues that differ only in unmeasured, total and
\* percentage have the same suppression key, and once a notice of one is recorded
\* is_rate_limited returns True for the other during the suppression period.
C13_UnmeasuredIssuesShareKey ==
  /\ \A i1, i2 \in UnmeasuredIssues :
       ~KeyRaises(i1, cfg) => (~KeyRaises(i2, cfg) /\ keyOf(i1) = keyOf(i2))
  /\ Answered =>
       \A other \in UnmeasuredIssues \ {last.issue} :
         (RecordedAndInPeriod(other, last.at) /\ noted[keyOf(other)].by = other) =>
           last.result = TRUE

\* C13 witness: is_rate_limited has answered True for one issue, inside the period of
\* the notice recorded for the other, with a suppression duration that is not 0.
C13_Witness ==
  /\ Answered /\ last.result = TRUE /\ hoursOf(last.issue) # 0
  /\ \E other \in UnmeasuredIssues \ {last.issue} :
       /\ RecordedAndInPeriod(other, last.at)
       /\ noted[keyOf(other)].by = other
       /\ noted[keyOf(other)].t < last.at

----------------------------------------------------------------------------
(* Claims about a run of main(), checked under Spec *)

Started == pc # "idle"

IsScriptError(m) == m.subject = SCRIPT_ERROR_SUBJECT
IsPrimary(m) == m.subject = EMAIL_SUBJECT

MainCalls == SelectSeq(calls, LAMBDA m : ~IsScriptError(m))
ScriptErrors == SelectSeq(calls, IsScriptError)

PrimaryHandedOver == \E i \in DOMAIN calls : IsPrimary(calls[i]) /\ calls[i].ok

\* the marking loop of a dispatching run has run to its end
MarkingDone == ~is_all_suppressed /\ idx = Len(issues) + 1

\* is_rate_limited says True for the issue when the run starts
LimitedAtStart(issue) ==
  /\ ~KeyRaises(issue, cfg)
  /\ is_rate_limited(issue, cfg, disk0.data, run_start)

\* C2: the file changes only in a run whose primary notification was handed to the
\* mail transport: when util.send raised, or the run was terminated before util.send,
\* the file is the one the run started with.
C2_FileChangesOnlyWhenSent ==
  (pc \in {"killed", "reported"} /\ ~PrimaryHandedOver) => disk = disk0

\* C5: in a run where every produced issue is rate limited, or none was produced,
\* main calls util.send not once and leaves the store as loaded, in memory and on disk.
C5_NothingSentNothingRecorded ==
  (Started /\ \A i \in DOMAIN issues : LimitedAtStart(issues[i])) =>
    (MainCalls = <<>> /\ disk = disk0 /\ mem = disk0.data)

\* C5 witness: a finished run all of whose issues were suppressed, one of them by the store.
C5_Witness ==
  /\ pc = "done"
  /\ \A i \in DOMAIN issues : LimitedAtStart(issues[i])
  /\ \E i \in DOMAIN issues : hoursOf(issues[i]) # 0

C7_TotalFetchFailureIsSkipped ==
  (Started /\ (fetched.consensus = {} \/ fetched.vote = {})) =>
    escaped \notin {"fetch", "check"}

\* C9: when an exception escaped main, from fetching, checking, suppression handling or
\* sending, the wrapper calls util.send exactly once, as the last call, with subject
\* 'Script Error' and the error address as only recipient; otherwise it never does.
C9_EscapedExceptionIsReported ==
  /\ (escaped # "" /\ pc \notin {"raised", "killed"}) =>
       /\ pc = "reported"
       /\ Len(ScriptErrors) = 1
       /\ IsScriptError(calls[Len(calls)])
       /\ calls[Len(calls)].to = {ERROR_ADDRESS}
       /\ calls[Len(calls)].recipients = {ERROR_ADDRESS}
  /\ (escaped = "" \/ pc = "raised") => ScriptErrors = <<>>
  /\ pc = "reported" => escaped # ""

\* C9 witness: the report of an exception raised by the suppression handling.
C9_Witness == pc = "reported" /\ escaped = "suppression" /\ Len(calls) = 1

\* C10: in the primary notification every concerned authority of every issue that has a
\* contact address is addressed there: in bcc and not in cc when it is listed in
\* contact_via_bcc, in cc and not in bcc otherwise.
C10_ConcernedAuthoritiesAddressed ==
  \A m \in DOMAIN calls : (IsPrimary(calls[m]) /\ calls[m].ok) =>
    \A i \in DOMAIN issues : \A j \in DOMAIN issues[i].to :
      LET authority == issues[i].to[j][2]
      IN authority \in DOMAIN cfg.contact_address =>
           IF authority \in cfg.contact_via_bcc
           THEN /\ cfg.contact_address[authority] \in calls[m].bcc
                /\ cfg.contact_address[authority] \notin calls[m].cc
           ELSE /\ cfg.contact_address[authority] \in calls[m].cc
                /\ cfg.contact_address[authority] \notin calls[m].bcc

\* no call of util.send made by main has raised
NoSendFailed == \A m \in DOMAIN calls : ~IsScriptError(calls[m]) => calls[m].ok

\* the run has ended, by returning from main or by reporting an exception
RunEnded == pc \in {"done", "reported"}

\* C11: every run that takes the dispatching branch (some issue is not rate limited) and
\* in which no util.send raises sends exactly two notifications: first the primary one
\* to the operator list with the cc and bcc copies, then the summary to the announcement
\* address, both after the suppression-store updates of the run.
C11_DispatchingRunSendsBoth ==
  (RunEnded /\ ~is_all_suppressed /\ NoSendFailed) =>
    /\ Len(MainCalls) = 2
    /\ MainCalls[1] = primary_call(issues, destinations, cfg, TRUE)
    /\ MainCalls[2] = announce_call(issues, cfg, TRUE)
    /\ MarkingDone

\* the issues of the checkers of firing, from the k-th registered checker on
RECURSIVE ChecksFrom(_, _)
ChecksFrom(k, firing) ==
  IF k > Len(CheckerReports) THEN <<>>
  ELSE (IF k \in firing THEN CheckerReports[k] ELSE <<>>) \o ChecksFrom(k + 1, firing)

\* the issues of the run in the order of the claim
IssuesInOrder == produced.consensus \o produced.vote \o ChecksFrom(1, produced.firing)

\* C12: the body of the primary notification has one entry per issue of the run, rate
\* limited or not: the issues of the consensus fetch, then those of the vote fetch, then
\* those of the checkers in registration order and, per checker, in production order.
C12_BodyListsEveryIssueInOrder ==
  \A m \in DOMAIN calls : IsPrimary(calls[m]) =>
    /\ Len(calls[m].body) = Len(IssuesInOrder)
    /\ \A i \in DOMAIN IssuesInOrder : calls[m].body[i] = IssueStr(IssuesInOrder[i], cfg)

\* C12 witness: a primary notification about a fetch issue, a rate limited issue and
\* the two issues of one checker.
C12_Witness ==
  /\ PrimaryHandedOver
  /\ produced.consensus # <<>>
  /\ \E i \in DOMAIN issues : hoursOf(issues[i]) # 0 /\ LimitedAtStart(issues[i])
  /\ \E k \in produced.firing : Len(CheckerReports[k]) = 2

----------------------------------------------------------------------------
(* Claims about bad_exits_in_sync, checked under SpecBadExits *)

\* in the votes, two authorities flag f as BadExit and a, the third, lists f without it
TwoFlagThirdDoesNot(f, a) ==
  /\ \A b \in BadExitAuthorities \ {a} :
       f \in DOMAIN arg.votes[b].routers /\ BADEXIT \in arg.votes[b].routers[f].flags
  /\ f \in DOMAIN arg.votes[a].routers
  /\ BADEXIT \notin arg.votes[a].routers[f].flags

\* the vote of a flags some relay as BadExit
VotesOnBadExit(a) ==
  \E g \in DOMAIN arg.votes[a].routers : BADEXIT \in arg.votes[a].routers[g].flags

\* the checker returned exactly one issue for f, with a under 'without flag'
OneIssueWithout(f, a) ==
  /\ ret.returned = "list"
  /\ Cardinality({i \in ret.issues : i.attr.fingerprint = f}) = 1
  /\ \A i \in ret.issues : i.attr.fingerprint = f => a \in i.attr.without_flag

\* C15 (as claimed): given three authorities of which two flag F as BadExit and the
\* third lists F without the flag, with F in the latest consensus, bad_exits_in_sync
\* returns exactly one issue for F, with the third authority under 'without flag'.
C15_ThirdListedWithoutFlag ==
  ret # NotReturned =>
    \A f \in BadExitFingerprints, a \in BadExitAuthorities :
      (TwoFlagThirdDoesNot(f, a) /\ f \in arg.latest_consensus.routers) =>
        OneIssueWithout(f, a)

\* C15 (amended): the same, when the third authority itself votes on the BadExit flag,
\* that is flags at least one other relay.
C15_VotingThirdListedWithoutFlag ==
  ret # NotReturned =>
    \A f \in BadExitFingerprints, a \in BadExitAuthorities :
      (TwoFlagThirdDoesNot(f, a) /\ VotesOnBadExit(a) /\ f \in arg.latest_consensus.routers) =>
        OneIssueWithout(f, a)

\* C15 witness: the checker has returned its issue for such votes.
C15_Witness ==
  /\ ret # NotReturned
  /\ \E f \in BadExitFingerprints, a \in BadExitAuthorities :
       /\ TwoFlagThirdDoesNot(f, a) /\ VotesOnBadExit(a)
       /\ f \in arg.latest_consensus.routers
       /\ OneIssueWithout(f, a)

\* the authorities that vote on the BadExit flag
BadExitVoters == {a \in BadExitAuthorities : VotesOnBadExit(a)}

\* the vote of a flags f as BadExit
Flags(a, f) == f \in DOMAIN arg.votes[a].routers /\ BADEXIT \in arg.votes[a].routers[f].flags

\* the vote of a lists f without the BadExit flag
ListsWithoutFlag(a, f) ==
  f \in DOMAIN arg.votes[a].routers /\ BADEXIT \notin arg.votes[a].routers[f].flags

\* the issues returned about f
BadExitIssues(f) == {i \in ret.issues : i.attr.fingerprint = f}

\* C21: bad_exits_in_sync returns no issue for a fingerprint that the latest consensus
\* does not list, none for a fingerprint that no authority voting on BadExit lists
\* without the flag, none for a fingerprint every authority voting on BadExit flags,
\* and at most one issue per fingerprint.
C21_NoIssueWithoutEvidence ==
  ret # NotReturned =>
    \A f \in BadExitFingerprints :
      /\ f \notin arg.latest_consensus.routers => BadExitIssues(f) = {}
      /\ (~\E a \in BadExitVoters : ListsWithoutFlag(a, f)) => BadExitIssues(f) = {}
      /\ (\A a \in BadExitVoters : Flags(a, f)) => BadExitIssues(f) = {}
      /\ Cardinality(BadExitIssues(f)) <= 1

\* C21 witness: the checker returned an issue for one fingerprint and none for another
\* that authorities disagree about, one listing it without the flag, because the latest
\* consensus does not list it.
C21_Witness ==
  /\ ret # NotReturned
  /\ \E f, g \in BadExitFingerprints :
       /\ Cardinality(BadExitIssues(f)) = 1
       /\ g \notin arg.latest_consensus.routers
       /\ \E a, b \in BadExitVoters : Flags(a, g) /\ ListsWithoutFlag(b, g)
       /\ BadExitIssues(g) = {}

----------------------------------------------------------------------------
(* Claims about bandwidth_authorities_in_sync, checked under SpecBandwidth *)

\* the number of relays with a measurement in the vote of a
CountOf(a) ==
  Cardinality({f \in DOMAIN arg.votes[a].routers :
                 arg.votes[a].routers[f].measured # NotMeasured})

\* the authorities whose vote has measurements
Reporting == {a \in DOMAIN arg.votes : CountOf(a) > 0}

\* the count of a is more than 20% above or below the exact mean of the counts
\* (count > 1.2 * sum / n, without division)
DeviatesFromMean(a) ==
  LET total == SumValues([b \in Reporting |-> CountOf(b)])
      n == Cardinality(Reporting)
  IN \/ 10 * n * CountOf(a) > 12 * total
     \/ 10 * n * CountOf(a) < 8 * total

\* C16: bandwidth_authorities_in_sync returns an issue, exactly one and naming the count
\* of every authority that reports measurements, iff the count of some authority is
\* more than 20% above or below the exact arithmetic mean of those counts.
C16_IssueIffDeviationFromMean ==
  ret # NotReturned =>
    /\ (ret.returned = "issue") = (\E a \in Reporting : DeviatesFromMean(a))
    /\ ret.returned = "issue" =>
         /\ Cardinality(ret.issues) = 1
         /\ \A i \in ret.issues : i.attr.authorities = {<<a, CountOf(a)>> : a \in Reporting}

----------------------------------------------------------------------------
(* Claims about certificate_expiration, checked under SpecCertificates *)

\* the time that remains until the certificate of the vote of a expires
Remaining(a) == arg.votes[a].directory_authorities[1].key_certificate.expires - now

\* the issues returned for the vote of a
IssuesFor(a) == {i \in ret.issues : i.to = <<Nick(a)>>}

\* the issue of the claim for a certificate that expires in the given number of seconds
Band(remaining) ==
  IF remaining <= 7 * 24 * 3600 THEN <<WARNING, "week">>
  ELSE IF remaining <= 14 * 24 * 3600 THEN <<WARNING, "two weeks">>
  ELSE IF remaining <= 21 * 24 * 3600 THEN <<NOTICE, "three weeks">>
  ELSE <<>>

\* C17: certificate_expiration returns at most one issue per vote, chosen by the time
\* that remains until the certificate of the vote's authority expires: WARNING 'week'
\* for at most 7 days, WARNING 'two weeks' for more than 7 and at most 14 days, NOTICE
\* 'three weeks' for more than 14 and at most 21 days, none for more than 21 days.
C17_IssueByRemainingTime ==
  ret # NotReturned =>
    \A a \in DOMAIN arg.votes :
      IF Band(Remaining(a)) = <<>> THEN IssuesFor(a) = {}
      ELSE /\ Cardinality(IssuesFor(a)) = 1
           /\ \A i \in IssuesFor(a) :
                <<i.runlevel>> \o i.attr["duration"] = Band(Remaining(a))

----------------------------------------------------------------------------
(* Claims about different_recommended_client_version, checked under SpecVersions *)

\* the versions an entry lists after the given sign, as a bag would: each position
Listed(entry, sign) == {i \in DOMAIN entry : i > 1 /\ entry[i - 1] = sign}

ConsensusVersions == Range(arg.latest_consensus.client_versions)
VoteVersions(a) == Range(arg.votes[a].client_versions)

\* the entry lists, once each, '+v' for the versions only in the vote of its authority
\* and '-v' for the versions only in the consensus
EntryIsTheDifference(entry) ==
  LET a == entry[1]
  IN /\ {entry[i] : i \in Listed(entry, "+")} = VoteVersions(a) \ ConsensusVersions
     /\ Cardinality(Listed(entry, "+")) = Cardinality(VoteVersions(a) \ ConsensusVersions)
     /\ {entry[i] : i \in Listed(entry, "-")} = ConsensusVersions \ VoteVersions(a)
     /\ Cardinality(Listed(entry, "-")) = Cardinality(ConsensusVersions \ VoteVersions(a))

\* C18: different_recommended_client_version returns no issue when the client_versions
\* of every vote equal those of the latest consensus or are empty; in the issue it
\* returns, the entry of each named authority lists '+v' for exactly the versions only
\* in its vote and '-v' for exactly the versions only in the consensus.
C18_NoIssueWhenEqualAndExactDifference ==
  ret # NotReturned =>
    /\ (\A a \in DOMAIN arg.votes :
          arg.votes[a].client_versions \in {<<>>, arg.latest_consensus.client_versions})
         => ret.returned = "None"
    /\ \A i \in ret.issues :
         /\ \A entry \in i.attr.differences : EntryIsTheDifference(entry)
         /\ {entry[1] : entry \in i.attr.differences} = {n[2] : n \in i.to}

\* C18 witness: the issue for a vote with one version more than the consensus and none
\* missing, whose entry is the authority, '+' and that version.
C18_Witness ==
  /\ ret # NotReturned /\ ret.returned = "issue"
  /\ \E a \in DOMAIN arg.votes, x \in Versions :
       /\ ConsensusVersions # {}
       /\ VoteVersions(a) = ConsensusVersions \cup {x} /\ x \notin ConsensusVersions
       /\ \E i \in ret.issues : <<a, " ", "+", x>> \in i.attr.differences

----------------------------------------------------------------------------
(* Claims about sybil_checker, checked under SpecSybil *)

\* the last run was no dry run and found at least 50 fingerprints that are new
InfluxInNonDryRun ==
  /\ sybil_run.ran /\ ~sybil_run.error
  /\ sybil_run.prior # {} /\ sybil_run.seconds_ago <= 3 * 3600
  /\ Cardinality(sybil_run.new) >= 50

\* C19: a run that is no dry run (prior fingerprints exist, the fingerprints file was
\* modified within the last three hours) and finds at least 50 fingerprints that are
\* not in the prior set hands one notification that lists the new relays to the mail
\* transport through util.send.
C19_InfluxIsNotified ==
  InfluxInNonDryRun =>
    /\ sybil_run.sent = 1
    /\ calls[Len(calls)].subject = SYBIL_EMAIL_SUBJECT
    /\ calls[Len(calls)].body.relay_entries = sybil_run.new

----------------------------------------------------------------------------
(* Claims about fingerprint_change_checker, checked under SpecChanges *)

IsChangeNotification(m) == m.subject = CHANGE_EMAIL_SUBJECT

\* the run calls util.send with its notification
ChangeSends == pc = "send" \/ \E m \in DOMAIN calls : IsChangeNotification(calls[m])

\* the notification of the run was accepted by the mail transport
ChangeSent == \E m \in DOMAIN calls : IsChangeNotification(calls[m]) /\ calls[m].ok

\* when the run started the endpoint had been notified within the last 24 hours
NotifiedWithinDay(e) ==
  e \in DOMAIN alarm_for.before /\ run_start - alarm_for.before[e] <= 24 * 3600

\* C20: a run sends its notification iff at least one endpoint is in alarm and not every
\* alarming endpoint was notified within the last 24 hours; once it has sent and
\* registered it, the persisted last notified time of every alarming endpoint is the
\* time of the run; the last notified times change only after the send succeeded, and
\* only those of the alarming endpoints.
C20_SendsUnlessAllNotifiedThenMarks ==
  alarm_for.runs > 0 =>
    /\ ChangeSends = (/\ alarm_for.for # {}
                      /\ \E e \in alarm_for.for : ~NotifiedWithinDay(e))
    /\ (ChangeSent /\ pc = "done") =>
         \A e \in alarm_for.for :
           e \in DOMAIN last_notified /\ last_notified[e] \in run_start .. now
    /\ last_notified # alarm_for.before => ChangeSent
    /\ \A e \in DOMAIN last_notified \ alarm_for.for :
         e \in DOMAIN alarm_for.before /\ last_notified[e] = alarm_for.before[e]

\* C20 witness: a run has sent and registered its notification for two alarming
\* endpoints, one of which had been notified within the last 24 hours.
C20_Witness ==
  /\ pc = "done" /\ ChangeSent
  /\ alarm_for.for = Endpoints
  /\ \E e \in Endpoints : NotifiedWithinDay(e)
  /\ \A e \in Endpoints : last_notified[e] = now
  /\ now > run_start

----------------------------------------------------------------------------
(* Claims about the checkers of the documents, checked under SpecDocuments *)

\* the checker of that name has returned or raised
Ran(checker) == arg.checker = checker /\ ret # NotReturned

\* the nicknames that carry the Authority flag in the latest consensus
Flagged ==
  {arg.latest_consensus.routers[f].nickname :
     f \in {g \in DOMAIN arg.latest_consensus.routers :
              AUTHORITY \in arg.latest_consensus.routers[g].flags}}

\* the issues of that runlevel are: one naming exactly these authorities if there are
\* any, none otherwise
OneNaming(runlevel, authorities) ==
  LET reported == {i \in ret.issues : i.runlevel = runlevel}
  IN IF authorities = {} THEN reported = {}
     ELSE /\ Cardinality(reported) = 1
          /\ \A i \in reported : i.attr.authorities = authorities

\* C23: has_authority_flag returns exactly these issues: one WARNING naming the known
\* authorities that have no router entry with the Authority flag in the latest
\* consensus iff there is such an authority, and one NOTICE naming the nicknames that
\* carry the flag without being known authorities iff there is such a nickname.
C23_MissingWarningAndExtraNotice ==
  Ran("has_authority_flag") =>
    /\ OneNaming(WARNING, KnownAuthorities \ Flagged)
    /\ OneNaming(NOTICE, Flagged \ KnownAuthorities)
    /\ OneNaming(ERROR, {})

\* C24: no checker divides by zero: bandwidth_authorities_in_sync returns no issue when
\* no vote has a measured router, and unmeasured_relays does not raise ZeroDivisionError
\* and returns no issue when the vote of a bandwidth authority lists none of the routers
\* of the latest consensus.
C24_NoDivisionByZero ==
  /\ Ran("bandwidth_authorities_in_sync") =>
        /\ ret.returned \in {"None", "issue"}
        /\ (\A a \in DOMAIN arg.votes : CountOf(a) = 0) => ret.issues = {}
  /\ Ran("unmeasured_relays") =>
        /\ ret.returned # "ZeroDivisionError"
        /\ (\E a \in DOMAIN arg.votes \cap BandwidthAuthorities :
              DOMAIN arg.votes[a].routers \cap DOMAIN arg.latest_consensus.routers = {})
           => ret = Returned("list", {})

\* the age of the consensus of a: how long ago its valid_after is
Age(a) == now - arg.consensuses[a].valid_after

\* the authorities whose consensus is less than one hour old
Fresh == {a \in DOMAIN arg.consensuses : Age(a) < 3600}

\* the voting authorities all the fresh consensuses together list
FreshVotes == UNION {VotesOf(arg.consensuses[a]) : a \in Fresh}

\* C25: consensuses_have_same_votes returns a MISSING_VOTES issue iff the consensuses
\* less than one hour old do not all list the same voting authorities; the issue names
\* exactly the authorities whose fresh consensus lists fewer than the union over the
\* fresh consensuses; a consensus older than one hour has no influence.
C25_FreshConsensusesListSameVotes ==
  Ran("consensuses_have_same_votes") =>
    LET lacking == {a \in Fresh : VotesOf(arg.consensuses[a]) # FreshVotes}
    IN IF lacking = {} THEN ret.issues = {}
       ELSE /\ Cardinality(ret.issues) = 1
            /\ \A i \in ret.issues : /\ i.template = "MISSING_VOTES"
                                      /\ i.attr.authorities = lacking

\* the authorities whose consensus is more than one hour old
Stale == {a \in DOMAIN arg.consensuses : Age(a) > 3600}

\* C27: missing_latest_consensus returns an issue iff some consensus has a valid_after
\* more than one hour before now; the issue names exactly the authorities with such a
\* consensus, and it is an ERROR for more than 3 of them and a WARNING for 1 to 3.
C27_StaleConsensusesReported ==
  Ran("missing_latest_consensus") =>
    IF Stale = {} THEN ret.issues = {}
    ELSE /\ Cardinality(ret.issues) = 1
         /\ \A i \in ret.issues :
              /\ i.attr.authorities = Stale
              /\ i.runlevel = IF Cardinality(Stale) > 3 THEN ERROR ELSE WARNING

----------------------------------------------------------------------------
(* Claims about run_checks, checked under SpecRunChecks *)

\* the consensus run_checks handed to the checkers
LatestGiven == arg.consensuses[ret.latest_consensus]

\* the authorities whose vote has a parameter with another value than the latest
\* consensus has for it
Mismatching ==
  {a \in DOMAIN arg.votes :
     \E k \in DOMAIN arg.votes[a].params \cap DOMAIN LatestGiven.params :
       arg.votes[a].params[k] # LatestGiven.params[k]}

\* run_checks returned an issue of that template
Reported(template) ==
  \E c \in DOMAIN ret.all_issues : \E i \in ret.all_issues[c] : i.template = template

\* C22: run_checks returns a NOTICE issue MISMATCH_CONSENSUS_PARAMETERS addressed to
\* every authority whose vote has a parameter whose value differs from the latest
\* consensus's value for it, and none when all the vote parameter values match.
C22_ParameterMismatchReported ==
  (Ran("run_checks") /\ ret.returned = "list") =>
    /\ Mismatching = {} => ~Reported("MISMATCH_CONSENSUS_PARAMETERS")
    /\ Mismatching # {} =>
         \E c \in DOMAIN ret.all_issues : \E i \in ret.all_issues[c] :
           /\ i.template = "MISMATCH_CONSENSUS_PARAMETERS"
           /\ i.runlevel = NOTICE
           /\ \A a \in Mismatching : Nick(a) \in i.to

\* the position of an authority in the iteration over the consensuses
PositionOf(a) == CHOOSE i \in DOMAIN arg.order : arg.order[i] = a

\* C26: the consensus run_checks hands to every checker as latest_consensus has the
\* maximum valid_after of the consensuses given, and of those with that valid_after it
\* is the first in iteration order.
C26_LatestIsFirstMaximum ==
  Ran("run_checks") =>
    \A a \in DOMAIN arg.consensuses :
      /\ arg.consensuses[a].valid_after <= LatestGiven.valid_after
      /\ arg.consensuses[a].valid_after = LatestGiven.valid_after =>
           PositionOf(ret.latest_consensus) <= PositionOf(a)

\* C26 witness: of three consensuses the first in iteration order is older and the
\* other two share the latest valid_after but differ; the second was handed over.
C26_Witness ==
  /\ Ran("run_checks")
  /\ Len(arg.order) = 3
  /\ ret.latest_consensus = arg.order[2]
  /\ arg.consensuses[arg.order[1]].valid_after < LatestGiven.valid_after
  /\ arg.consensuses[arg.order[3]].valid_after = LatestGiven.valid_after
  /\ arg.consensuses[arg.order[3]] # LatestGiven

\* C28: run_checks returns its list of issues, without raising, for every non-empty
\* mapping of consensuses and non-empty mapping of votes.
C28_RunChecksDoesNotRaise ==
  Ran("run_checks") => ret.returned = "list"

----------------------------------------------------------------------------
(* Claims about util.send, checked under SpecSend *)

\* C29: util.send leaves the list passed as its to argument and the module-level
\* TO_ADDRESSES unchanged: after any sequence of calls with cc or bcc recipients,
\* TO_ADDRESSES still holds only the address of the operators' list, and the caller's
\* to list has the elements it had before the call.
C29_SendLeavesListsUnchanged ==
  /\ Range(to_addresses) = TO_ADDRESSES
  /\ arg.checker = "send" => Range(ret.to) = Range(arg.to)

----------------------------------------------------------------------------
(* Claims about package_versions.fetch_url, checked under SpecFetch *)

\* the attempts of the call that failed
FailedAttempts == {k \in DOMAIN fetch.attempts : ~fetch.attempts[k].ok}

\* C30: fetch_url opens the URL at most three times; it returns what the first
\* successful attempt read, and that attempt is its last; it has slept 1 second after
\* the first failure and 2 seconds after the second; it raises IOError iff three
\* attempts failed; it never returns without a result.
C30_ThreeAttemptsWithBackoff ==
  /\ Len(fetch.attempts) <= 3
  /\ \A k \in DOMAIN fetch.attempts : fetch.attempts[k].ok => k = Len(fetch.attempts)
  /\ fetch.state = "returned" <=> (\E k \in DOMAIN fetch.attempts : fetch.attempts[k].ok)
  /\ fetch.state = "returned" =>
       fetch.result = <<fetch.attempts[Len(fetch.attempts)].content>>
  /\ fetch.slept = SubSeq(<<1, 2>>, 1, IF Cardinality(FailedAttempts) < 2
                                       THEN Cardinality(FailedAttempts) ELSE 2)
  /\ fetch.state = "IOError" <=> Cardinality(FailedAttempts) = 3
  /\ fetch.state = "called" => Len(fetch.attempts) < 3

\* C30 witness: the third attempt succeeded after sleeps of 1 and 2 seconds, and its
\* content was returned.
C30_Witness ==
  /\ fetch.state = "returned"
  /\ Len(fetch.attempts) = 3
  /\ fetch.slept = <<1, 2>>
  /\ fetch.result = <<fetch.attempts[3].content>>
  /\ now >= T0 + 3

====
